---- MODULE Spec2Model ----
(***************************************************************************)
(* Model of the Smite panel/node control plane:                            *)
(*   - transport selection and request delivery (panel/app/node_client.py) *)
(*   - node registration and relay hand-off (node/app/panel_client.py)     *)
(*   - startup reconciliation and shutdown (panel/main.py lifespan)        *)
(*   - reset configuration, manual reset and the reset scheduler           *)
(*     (panel/app/routers/core_health.py, panel/main.py)                   *)
(***************************************************************************)
EXTENDS Integers, Sequences, FiniteSets, TLC

VARIABLES
    settings_frp,   \* Settings row with key "frp": "absent" | "disabled" | "enabled"
    nodes,          \* Node table: node id -> NoNode or the node's metadata
    ncl,            \* per node: state of its PanelClient
    dl,             \* the send_to_node / get_tunnel_status call in progress
    tunnels,        \* Tunnel table, in the order a select returns it
    env_public_ip,  \* PANEL_PUBLIC_IP / PANEL_IP of the panel's environment
    panel_domain,   \* settings.panel_domain of the panel
    mgr,            \* per backend-core: tunnel ids its manager lists as active
    gost,           \* tunnel ids the gost forwarder forwards
    boot,           \* position of lifespan(): startup, serving, shutdown
    hist,           \* calls issued so far: manager starts, apply-tunnel calls, cleanups
    clock,          \* datetime.utcnow(), in minutes
    cfg,            \* CoreResetConfig table: backend-core -> row
    sch,            \* the _auto_reset_scheduler task
    man,            \* the manual_reset_core request in progress
    runs,           \* runs of _reset_core followed call by call
    hc,             \* the get_core_health request in progress
    rq,             \* the requests on /reset-config in progress
    extra           \* per backend-core: CoreResetConfig rows beyond the first

tvars == <<settings_frp, ncl, dl>>
bvars == <<tunnels, env_public_ip, panel_domain, mgr, gost, boot, hist>>
rvars == <<clock, cfg, sch, man, runs, hc, rq, extra>>

vars == <<settings_frp, nodes, ncl, dl, tunnels, env_public_ip, panel_domain, mgr, gost, boot, hist,
          clock, cfg, sch, man, runs, hc, rq, extra>>

----------------------------------------------------------------------------
(* Transport: addresses, node rows                                         *)

Nodes == {"n1", "n2"}              \* hosts that run a node agent
NodeIds == Nodes \cup {"n9"}       \* ids a caller may pass; "n9" is never registered
RelayPorts == {55000, 55001}       \* ports the relay may assign

NodeApiPort == 8888
MaxRetriesFrp == 3
MaxRetriesHttp == 1

Addr(scheme, host, port) == [scheme |-> scheme, host |-> host, port |-> port]
NoAddr == Addr("", "", 0)
DefaultApi == Addr("http", "localhost", NodeApiPort)
Loopback(port) == Addr("http", "127.0.0.1", port)

\* what a node reports as its API address; "" models an address stored
\* without the http prefix
ApiAddrOf(n) == {Addr("http", n, NodeApiPort), Addr("", n, NodeApiPort)}

\* metadata.panel_address as the node reports it; "" when it reports none
PanelAddrs == {"", "http://panel.example:8000"}

NoNode == [present |-> FALSE, api_address |-> NoAddr, frp_remote_port |-> 0,
           panel_address |-> ""]
Row(api, port, panel) == [present |-> TRUE, api_address |-> api, frp_remote_port |-> port,
                          panel_address |-> panel]

\* node_address.startswith("http") else "http://" + node_address
WithHttp(a) == IF a.scheme = "http" THEN a ELSE Addr("http", a.host, a.port)

\* NodeClient._get_frp_settings: the stored value when enabled, else None
GetFrpSettings(row) == row = "enabled"

\* mutant: the stored relay port is not looked at
GetNodeAddress_IgnoresPort(frp_enabled, meta) ==
    <<WithHttp(IF meta.api_address = NoAddr THEN DefaultApi ELSE meta.api_address), FALSE>>

\* NodeClient._get_node_address: <<address, using_frp>>
GetNodeAddress(frp_enabled, meta) ==
    IF frp_enabled /\ meta.frp_remote_port # 0
    THEN <<Loopback(meta.frp_remote_port), TRUE>>
    ELSE <<WithHttp(IF meta.api_address = NoAddr THEN DefaultApi ELSE meta.api_address), FALSE>>

\* mutant: the retry budget of the relay is used for every transport
MaxRetries_AlwaysThree(using_frp) == MaxRetriesFrp

\* max_retries = 3 if using_frp else 1
MaxRetries(using_frp) == IF using_frp THEN MaxRetriesFrp ELSE MaxRetriesHttp

----------------------------------------------------------------------------
(* Node side: PanelClient                                                   *)

\* settings.panel_address and settings.panel_api_port of the node
NodePanelAddress == Addr("http", "panel.example", 443)
PanelApiPort == 8000

\* panel_api_url = f"http://{panel_host}:{panel_api_port}": the host of the
\* configured panel address, the API port
PanelApiUrl(panel_address) == Addr("http", panel_address.host, PanelApiPort)

\* node_id "" is None; frpc is the relay client process; reports counts the
\* PUTs sent and report_url is where the last one went
NclInit == [pc |-> "init", registered |-> FALSE, node_id |-> "", using_frp |-> FALSE,
            frpc |-> "off", remote_port |-> 0, reports |-> 0, report_url |-> NoAddr]

\* register_with_panel, the panel accepts: the Node row is created from the
\* registration data and the answer carries frp_config when relay is enabled;
\* node_id is data.get("id")
RegisterOk(n) ==
    /\ ncl[n].pc \in {"init", "failed"}
    /\ \E api \in ApiAddrOf(n), has_server_addr \in BOOLEAN, id \in {"", n} :
        /\ nodes' = [nodes EXCEPT ![n] = Row(api, 0, "http://panel.example:8000")]
        /\ ncl' = [ncl EXCEPT ![n] =
                [@ EXCEPT !.registered = TRUE,
                          !.node_id = id,
                          !.pc = IF settings_frp = "enabled"
                                 THEN (IF has_server_addr THEN "setup_frp" ELSE "http")
                                 ELSE "http"]]
    /\ UNCHANGED <<settings_frp, dl, bvars, rvars>>

\* register_with_panel, the panel is unreachable or answers non-200
RegisterFail(n) ==
    /\ ncl[n].pc = "init"
    /\ ncl' = [ncl EXCEPT ![n] = [@ EXCEPT !.pc = "failed"]]
    /\ UNCHANGED <<settings_frp, nodes, dl, bvars, rvars>>

\* mutant: the report is due as soon as the relay client was started
SetupFrp_ReportsUnchecked(n) ==
    /\ ncl[n].pc = "setup_frp"
    /\ \E running \in BOOLEAN, p \in RelayPorts \cup {0} :
            ncl' = [ncl EXCEPT ![n] = [@ EXCEPT !.pc = "report",
                                                !.frpc = IF running THEN "running" ELSE "off",
                                                !.remote_port = IF running THEN p ELSE 0]]
    /\ UNCHANGED <<settings_frp, nodes, dl, bvars, rvars>>

\* _setup_frp up to the report: the relay client is started and, when it runs
\* after the wait and knows its remote port, the report is due; when start
\* raises, the client is not running or has no port, nothing is reported
SetupFrp(n) ==
    /\ ncl[n].pc = "setup_frp"
    /\ \/ \E p \in RelayPorts :
            ncl' = [ncl EXCEPT ![n] = [@ EXCEPT !.pc = "report", !.frpc = "running",
                                                !.remote_port = p]]
       \/ \E running \in BOOLEAN :
            ncl' = [ncl EXCEPT ![n] = [@ EXCEPT !.pc = "http",
                                                !.frpc = IF running THEN "running" ELSE "off"]]
    /\ UNCHANGED <<settings_frp, nodes, dl, bvars, rvars>>

\* panel handler of PUT /api/nodes/{id}/frp-status
StoreFrpStatus(n, port) == [nodes EXCEPT ![n] = [@ EXCEPT !.frp_remote_port = port]]

\* _report_frp_status and the rest of _setup_frp: without a node_id nothing is
\* sent; otherwise one PUT goes to the panel's API address and is stored or
\* fails; using_frp is set whatever the report's outcome
ReportFrpStatus(n) ==
    /\ ncl[n].pc = "report"
    /\ IF ncl[n].node_id = ""
       THEN /\ ncl' = [ncl EXCEPT ![n] = [@ EXCEPT !.pc = "frp", !.using_frp = TRUE]]
            /\ UNCHANGED nodes
       ELSE /\ \/ nodes' = StoreFrpStatus(n, ncl[n].remote_port)
               \/ UNCHANGED nodes
            /\ ncl' = [ncl EXCEPT ![n] = [@ EXCEPT !.pc = "frp", !.using_frp = TRUE,
                                                  !.reports = @ + 1,
                                                  !.report_url = PanelApiUrl(NodePanelAddress)]]
    /\ UNCHANGED <<settings_frp, dl, bvars, rvars>>

\* an admin edits the relay settings row
SetFrpSettings ==
    /\ \E v \in {"disabled", "enabled"} :
        /\ v # settings_frp
        /\ settings_frp' = v
    /\ UNCHANGED <<nodes, ncl, dl, bvars, rvars>>

----------------------------------------------------------------------------
(* Panel side: NodeClient.send_to_node / get_tunnel_status                  *)

\* what one HTTP exchange with the node can end in
\*   ok       2xx with a JSON body
\*   neterr   httpx.RequestError (connect error, timeout)
\*   httperr  raise_for_status raised httpx.HTTPStatusError
\*   badjson  2xx whose body does not decode (any other exception)
Outcomes == {"ok", "neterr", "httperr", "badjson"}

\* JSON bodies a node answers with
NodeReplies == {"reply_ok", "reply_error"}

Res(status, kind, detail) == [status |-> status, kind |-> kind, detail |-> detail]
NoRes == Res("", "", "")
NotFound == Res("error", "not_found", "")
NetworkError(using_frp) == Res("error", "network", IF using_frp THEN "frp_tried_3" ELSE "")
\* e.response.json().get("detail", str(e)), or str(e) when the body does not decode
NodeError(decodes) == Res("error", "node_error", IF decodes THEN "detail" ELSE "str_e")
OtherError == Res("error", "other", "")
Reply(body) == Res(IF body = "reply_ok" THEN "ok" ELSE "error", "reply", body)

DlIdle == [pc |-> "idle", kind |-> "", node |-> "", meta |-> NoNode, frp_seen |-> FALSE,
           addr |-> NoAddr, using_frp |-> FALSE, attempt |-> 0, outcomes |-> <<>>,
           waits |-> 0, probes |-> 0, probe_out |-> "", decodes |-> FALSE,
           result |-> NoRes]

\* the call starts: select(Node).where(Node.id == node_id)
LoadNode(kind, id) ==
    IF nodes[id].present
    THEN [DlIdle EXCEPT !.pc = "loaded", !.kind = kind, !.node = id, !.meta = nodes[id]]
    ELSE [DlIdle EXCEPT !.pc = "done", !.kind = kind, !.node = id, !.result = NotFound]

\* node_address, using_frp = await self._get_node_address(node); for
\* send_to_node a relayed call goes through the health check first
Resolved(d, row) ==
    LET r == GetNodeAddress(GetFrpSettings(row), d.meta) IN
    [d EXCEPT !.frp_seen = GetFrpSettings(row), !.addr = r[1], !.using_frp = r[2],
              !.pc = IF d.kind = "send" /\ r[2] THEN "probe" ELSE "attempt"]

\* mutant: the inner handler catches httpx.HTTPError, so a rejection is
\* retried like a network error
AfterSend_RetriesRejection(d, o, body, decodes) ==
    LET e == [d EXCEPT !.outcomes = Append(@, o)] IN
    CASE o = "ok"      -> [e EXCEPT !.pc = "done", !.result = Reply(body)]
      [] o \in {"neterr", "httperr"} ->
                          IF d.attempt < MaxRetries(d.using_frp) - 1
                          THEN [e EXCEPT !.pc = "sleep"]
                          ELSE [e EXCEPT !.pc = "done", !.result = NetworkError(d.using_frp)]
      [] OTHER         -> [e EXCEPT !.pc = "done", !.result = OtherError]

\* the retry loop of send_to_node after one exchange ended in outcome o
AfterSend(d, o, body, decodes) ==
    LET e == [d EXCEPT !.outcomes = Append(@, o)] IN
    CASE o = "ok"      -> [e EXCEPT !.pc = "done", !.result = Reply(body)]
      [] o = "neterr"  -> IF d.attempt < MaxRetries(d.using_frp) - 1
                          THEN [e EXCEPT !.pc = "sleep"]
                          ELSE [e EXCEPT !.pc = "done", !.result = NetworkError(d.using_frp)]
      [] o = "httperr" -> [e EXCEPT !.pc = "done", !.result = NodeError(decodes)]
      [] OTHER         -> [e EXCEPT !.pc = "done", !.result = OtherError]

\* the single exchange of get_tunnel_status
AfterStatus(d, o, body, decodes) ==
    LET e == [d EXCEPT !.outcomes = Append(@, o)] IN
    CASE o = "ok"      -> [e EXCEPT !.pc = "done", !.result = Reply(body)]
      [] o = "neterr"  -> [e EXCEPT !.pc = "done", !.result = NetworkError(FALSE)]
      [] o = "httperr" -> [e EXCEPT !.pc = "done", !.result = NodeError(decodes)]
      [] OTHER         -> [e EXCEPT !.pc = "done", !.result = OtherError]

\* send_to_node(node_id, ...) / apply_tunnel / get_tunnel_status are called
DeliverStart ==
    /\ dl.pc \in {"idle", "done", "raised"}
    /\ \E kind \in {"send", "status"}, id \in NodeIds : dl' = LoadNode(kind, id)
    /\ UNCHANGED <<settings_frp, nodes, ncl, bvars, rvars>>

\* _get_node_address returns
DeliverResolve ==
    /\ dl.pc = "loaded"
    /\ dl' = Resolved(dl, settings_frp)
    /\ UNCHANGED <<settings_frp, nodes, ncl, bvars, rvars>>

\* _get_node_address raises (the settings query fails): nothing encloses the
\* call, the exception leaves send_to_node / get_tunnel_status
DeliverResolveRaises ==
    /\ dl.pc = "loaded"
    /\ dl' = [dl EXCEPT !.pc = "raised"]
    /\ UNCHANGED <<settings_frp, nodes, ncl, bvars, rvars>>

\* what the health check can end in: any answer (the status is not looked
\* at), an httpx.RequestError, or the 5 s timeout
ProbeOutcomes == {"answered", "neterr", "timeout"}

\* mutant: a failed health check ends the call with a network error
AfterProbe_FailureBlocks(d, o) ==
    IF o = "answered"
    THEN [d EXCEPT !.probes = @ + 1, !.probe_out = o, !.pc = "attempt"]
    ELSE [d EXCEPT !.probes = @ + 1, !.probe_out = o, !.pc = "done",
                   !.result = NetworkError(TRUE)]

\* the try/except around the health check: an exception is logged only and
\* the retry loop follows
AfterProbe(d, o) == [d EXCEPT !.probes = @ + 1, !.probe_out = o, !.pc = "attempt"]

\* the health check GET /api/agent/status ahead of a relayed request
DeliverProbe ==
    /\ dl.pc = "probe"
    /\ \E o \in ProbeOutcomes : dl' = AfterProbe(dl, o)
    /\ UNCHANGED <<settings_frp, nodes, ncl, bvars, rvars>>

\* one exchange with the node
DeliverAttempt ==
    /\ dl.pc = "attempt"
    /\ \E o \in Outcomes, body \in NodeReplies, decodes \in BOOLEAN :
        dl' = [(IF dl.kind = "send" THEN AfterSend(dl, o, body, decodes)
                                    ELSE AfterStatus(dl, o, body, decodes))
               EXCEPT !.decodes = decodes]
    /\ UNCHANGED <<settings_frp, nodes, ncl, bvars, rvars>>

\* await asyncio.sleep(1.0); continue
DeliverSleep ==
    /\ dl.pc = "sleep"
    /\ dl' = [dl EXCEPT !.waits = @ + 1, !.attempt = @ + 1, !.pc = "attempt"]
    /\ UNCHANGED <<settings_frp, nodes, ncl, bvars, rvars>>

----------------------------------------------------------------------------
(* Reconciler and shutdown: lifespan() of panel/main.py                     *)

MaxTunnels == 2                    \* rows of the Tunnel table

CORES == <<"backhaul", "rathole", "chisel", "frp">>
Cores == {CORES[k] : k \in 1..Len(CORES)}

\* values of a port field of Tunnel.spec
Missing == 0                       \* the key is absent (or None)
NonNumeric == -1                   \* a value int() rejects
Null == -2                         \* the key is present and holds 0
DefaultBindPort == 7000
ControlPortOffset == 10000
Truthy(v) == v \notin {Missing, Null}
Or(a, b) == IF Truthy(a) THEN a ELSE b
Get(v, default) == IF v = Missing THEN default ELSE v
IntRaises(v) == v = NonNumeric

\* "" and <<>> are absent keys
BaseSpec == [remote_addr |-> "", token |-> "", remote_port |-> Missing,
             listen_port |-> Missing, server_port |-> Missing,
             control_port |-> Missing, bind_port |-> Missing,
             panel_host |-> "", server_addr |-> "", local_addr |-> "",
             local_port |-> Missing, reverse_spec |-> <<>>]
Tun(core, status, node_id, spec) ==
    [core |-> core, status |-> status, node_id |-> node_id, spec |-> spec]

RatholeSpec == [BaseSpec EXCEPT !.remote_addr = "panel.example:23333", !.token = "tok",
                                !.remote_port = 9000]
ChiselSpec == [BaseSpec EXCEPT !.listen_port = 9000]
FrpSpec == [BaseSpec EXCEPT !.token = "tok"]

\* the tunnel rows the store is populated from
TunnelRows ==
    { Tun("rathole", "active", "n1", RatholeSpec),
      Tun("rathole", "active", "n2", [RatholeSpec EXCEPT !.token = ""]),
      Tun("rathole", "active", "n1", [RatholeSpec EXCEPT !.remote_port = NonNumeric]),
      Tun("rathole", "inactive", "n1", RatholeSpec),
      Tun("rathole", "error", "", RatholeSpec),
      Tun("backhaul", "active", "n2", BaseSpec),
      Tun("chisel", "active", "n1", ChiselSpec),
      Tun("chisel", "active", "n2", BaseSpec),
      Tun("chisel", "active", "n1", [ChiselSpec EXCEPT !.control_port = NonNumeric]),
      Tun("frp", "active", "n2", FrpSpec),
      Tun("frp", "active", "n1", [FrpSpec EXCEPT !.bind_port = Null]),
      Tun("frp", "active", "n9", [FrpSpec EXCEPT !.bind_port = NonNumeric]),
      Tun("xray", "active", "", [BaseSpec EXCEPT !.listen_port = 8080]) }

Tids == 1..MaxTunnels
IsActive(t) == t.status = "active"

\* PANEL_PUBLIC_IP is usable unless empty or a loopback / wildcard address
PublicIpUsable(ip) == ip \notin {"", "localhost", "127.0.0.1", "::1", "0.0.0.0"}

\* mutant: only listen_port is taken as the proxy port
RatholePlan_IgnoresRemotePort(t) ==
    LET proxy_port == t.spec.listen_port IN
    IF t.core # "rathole" THEN "skip"
    ELSE IF t.spec.remote_addr = "" \/ t.spec.token = "" \/ ~Truthy(proxy_port) THEN "skip"
    ELSE IF IntRaises(proxy_port) THEN "convert"
    ELSE "start"

\* what one iteration of a _restore_*_servers loop does with tunnel t:
\*   "skip"    continue, nothing is started
\*   "convert" an int() conversion raises before the start
\*   "start"   start_server is called
RatholePlan(t) ==
    LET proxy_port == Or(t.spec.remote_port, t.spec.listen_port) IN
    IF t.core # "rathole" THEN "skip"
    ELSE IF t.spec.remote_addr = "" \/ t.spec.token = "" \/ ~Truthy(proxy_port) THEN "skip"
    ELSE IF IntRaises(proxy_port) THEN "convert"
    ELSE "start"

BackhaulPlan(t) == IF t.core # "backhaul" THEN "skip" ELSE "start"

ChiselPlan(t) ==
    LET listen_port == Or(Or(t.spec.listen_port, t.spec.remote_port), t.spec.server_port) IN
    IF t.core # "chisel" THEN "skip"
    ELSE IF ~Truthy(listen_port) THEN "skip"
    ELSE IF Truthy(t.spec.control_port)
         THEN (IF IntRaises(t.spec.control_port) THEN "convert" ELSE "start")
         ELSE (IF IntRaises(listen_port) THEN "convert" ELSE "start")

FrpPlan(t) ==
    LET bind_port == Get(t.spec.bind_port, DefaultBindPort) IN
    IF t.core # "frp" THEN "skip"
    ELSE IF ~Truthy(bind_port) THEN "skip"
    ELSE IF IntRaises(bind_port) THEN "convert"
    ELSE "start"

\* mutant: the stored status is not looked at
LocalPlan_AnyStatus(core, t) ==
    CASE core = "rathole"  -> RatholePlan(t)
      [] core = "backhaul" -> BackhaulPlan(t)
      [] core = "chisel"   -> ChiselPlan(t)
      [] OTHER             -> FrpPlan(t)

LocalPlan(core, t) ==
    IF ~IsActive(t) THEN "skip"
    ELSE CASE core = "rathole"  -> RatholePlan(t)
           [] core = "backhaul" -> BackhaulPlan(t)
           [] core = "chisel"   -> ChiselPlan(t)
           [] OTHER             -> FrpPlan(t)

\* the loop body of _restore_<core>_servers sits in a try/except of its own
CatchesPerTunnel(core) == core # "rathole"

\* what one iteration of _restore_node_tunnels does with tunnel t:
\*   "skip"    not a node tunnel, or continue (node not found, frp host unknown)
\*   "raise"   an exception before send_to_node, caught for this tunnel
\*   "apply"   send_to_node is called
NodePlan(t, node_rows, public_ip) ==
    LET listen_port == Or(Or(t.spec.listen_port, t.spec.remote_port), t.spec.server_port) IN
    IF ~(IsActive(t) /\ t.core \in Cores /\ t.node_id # "") THEN "skip"
    ELSE IF ~node_rows[t.node_id].present THEN "skip"
    ELSE IF t.core = "frp"
         THEN (IF node_rows[t.node_id].panel_address # ""
               THEN (IF IntRaises(Get(t.spec.bind_port, DefaultBindPort)) THEN "raise" ELSE "apply")
               ELSE (IF PublicIpUsable(public_ip) THEN "apply" ELSE "skip"))
    ELSE IF t.core = "chisel" /\ Truthy(listen_port)
         THEN (IF Truthy(t.spec.control_port)
               THEN (IF IntRaises(t.spec.control_port) \/ IntRaises(listen_port)
                     THEN "raise" ELSE "apply")
               ELSE (IF IntRaises(listen_port) THEN "raise" ELSE "apply"))
    ELSE "apply"

\* the host of a stored panel_address or remote_addr: what follows "://"
\* is cut at its first ":", so of a bracketed IPv6 literal only "[2001"
\* is left
HostOf(address) ==
    CASE address = "http://panel.example:8000"  -> "panel.example"
      [] address = "panel.example:23333"        -> "panel.example"
      [] address = "http://[2001:db8::1]:8000"  -> "[2001"
      [] OTHER                                  -> address

\* app.utils.is_valid_ipv6_address, and the host as it is written in a URL
IsValidIPv6(host) == host \in {"2001:db8::1", "::1"}
Bracketed(host) == IF IsValidIPv6(host) THEN "[" \o host \o "]" ELSE host
Loopbacks == {"localhost", "127.0.0.1", "::1"}

\* listen_port or remote_port or server_port of a chisel tunnel
ChiselListenPort(spec) == Or(Or(spec.listen_port, spec.remote_port), spec.server_port)

\* server_control_port of a chisel tunnel whose listen_port is set
ChiselControlPort(spec) ==
    IF Truthy(spec.control_port) THEN spec.control_port
    ELSE ChiselListenPort(spec) + ControlPortOffset

\* the port start_server is called with by _restore_<core>_servers:
\* proxy_port, server_port (the control port) or bind_port; backhaul takes
\* its ports from the spec itself
RestoreStartPort(core, t) ==
    CASE core = "rathole"  -> Or(t.spec.remote_port, t.spec.listen_port)
      [] core = "chisel"   -> ChiselControlPort(t.spec)
      [] core = "frp"      -> Get(t.spec.bind_port, DefaultBindPort)
      [] OTHER             -> Missing

\* panel_host of a chisel tunnel before the fallbacks: the explicit field,
\* else the host of the node's panel_address
ChiselFirstHost(spec, row) ==
    IF spec.panel_host # "" THEN spec.panel_host
    ELSE IF row.panel_address # "" THEN HostOf(row.panel_address)
    ELSE ""

\* node.node_metadata.get("ip_address") or node.fingerprint: hosts are named
\* by their node id
NodeIp(id) == id

\* panel_host of _restore_node_tunnels for a chisel tunnel: an empty or
\* loopback host is replaced by settings.panel_domain, then by the node's
\* own ip_address or fingerprint, then by "localhost"
RestoreChiselHost(spec, row, id, domain) ==
    LET h1 == ChiselFirstHost(spec, row)
        h2 == IF (h1 = "" \/ h1 \in Loopbacks) /\ domain # "" THEN domain ELSE h1
    IN  IF h2 = "" \/ h2 \in Loopbacks
        THEN (IF NodeIp(id) # "" /\ NodeIp(id) \notin Loopbacks THEN NodeIp(id)
              ELSE "localhost")
        ELSE h2

\* panel_host of _reset_core for a chisel tunnel: an empty or loopback host
\* is replaced by PANEL_PUBLIC_IP when usable, else by 127.0.0.1
ResetChiselHost(spec, row, public_ip) ==
    LET h1 == ChiselFirstHost(spec, row) IN
    IF h1 = "" \/ h1 \in Loopbacks
    THEN (IF PublicIpUsable(public_ip) THEN public_ip ELSE "127.0.0.1")
    ELSE h1

\* the frp branch of both functions: server_addr and server_port from the
\* node's panel_address, else server_addr alone from PANEL_PUBLIC_IP
FrpSpecForNode(spec, row, public_ip) ==
    IF row.panel_address # ""
    THEN [spec EXCEPT !.server_addr = Bracketed(HostOf(row.panel_address)),
                      !.server_port = Get(spec.bind_port, DefaultBindPort)]
    ELSE [spec EXCEPT !.server_addr = public_ip]

\* spec_for_node of _restore_node_tunnels for a tunnel whose plan is "apply":
\* a copy of the stored spec with the derived fields set
RestoreSpecForNode(t, row, public_ip, domain) ==
    CASE t.core = "frp" -> FrpSpecForNode(t.spec, row, public_ip)
      [] t.core = "chisel" /\ Truthy(ChiselListenPort(t.spec)) ->
            [server_url |-> <<Bracketed(RestoreChiselHost(t.spec, row, t.node_id, domain)),
                              ChiselControlPort(t.spec)>>,
             reverse_port |-> ChiselListenPort(t.spec)]
                @@ [t.spec EXCEPT !.remote_port = ChiselListenPort(t.spec)]
      [] OTHER -> t.spec

\* mutant: the derived fields are set on tunnel.spec itself
StoredAfterApply_InPlace(tuns, t, spec_for_node) ==
    [tuns EXCEPT ![t].spec = spec_for_node]

\* the Tunnel table after spec_for_node was built and sent: the fields are
\* set on tunnel.spec.copy() or on a new dict, the rows are not written
StoredAfterApply(tuns, t, spec_for_node) == tuns

\* node.node_metadata["api_address"] is filled in before the apply when missing
WithApiAddress(row, id) ==
    IF row.api_address = NoAddr
    THEN [row EXCEPT !.api_address = Addr("http", id, NodeApiPort)]
    ELSE row

Phases == <<"forwards", "rathole", "backhaul", "chisel", "frp", "node_tunnels",
            "start_scheduler", "serving",
            "cancel_reset", "stop_h2", "cleanup_gost", "cleanup_rathole",
            "cleanup_backhaul", "cleanup_chisel", "cleanup_frp", "stopped">>
PhaseIndex(pc) == CHOOSE k \in 1..Len(Phases) : Phases[k] = pc

\* mutant: the scheduler task is created before _restore_node_tunnels
NextPhase_SchedulerEarly(pc) ==
    CASE pc = "frp"             -> "start_scheduler"
      [] pc = "start_scheduler" -> "node_tunnels"
      [] pc = "node_tunnels"    -> "serving"
      [] OTHER                  -> Phases[PhaseIndex(pc) + 1]

\* the statement of lifespan that follows the one named pc
NextPhase(pc) == Phases[PhaseIndex(pc) + 1]

BootInit == [pc |-> "forwards", i |-> 1, reset_task |-> "none", since |-> 0]
HistInit == [starts |-> [t \in Tids |-> 0], start_raised |-> {},
             port |-> [t \in Tids |-> Missing],
             applies |-> [t \in Tids |-> 0], apply_result |-> [t \in Tids |-> "none"],
             sent |-> [t \in Tids |-> <<>>],
             cleanups |-> {}, shutdown_raised |-> ""]

\* the loop goes on with the next tunnel, or the function returns
Advance(b) == IF b.i < Len(tunnels) THEN [b EXCEPT !.i = @ + 1]
              ELSE [b EXCEPT !.pc = NextPhase(b.pc), !.i = 1]
\* the function's outer except ends the loop
AbortLoop(b) == [b EXCEPT !.pc = NextPhase(b.pc), !.i = 1]
\* an exception inside the loop body
AfterRaise(core, b) == IF CatchesPerTunnel(core) THEN Advance(b) ELSE AbortLoop(b)

\* _restore_forwards: gost forwarding of the xray tunnels
RestoreForwards ==
    /\ boot.pc = "forwards"
    /\ gost' = {t \in Tids : /\ IsActive(tunnels[t]) /\ tunnels[t].core = "xray"
                              /\ Truthy(Or(tunnels[t].spec.listen_port,
                                           tunnels[t].spec.remote_port))
                              /\ ~IntRaises(Or(tunnels[t].spec.listen_port,
                                               tunnels[t].spec.remote_port))}
    /\ boot' = [boot EXCEPT !.pc = "rathole", !.i = 1]
    /\ UNCHANGED <<nodes, tvars, rvars, tunnels, env_public_ip, panel_domain, mgr, hist>>

\* one iteration of the loop of _restore_<core>_servers
RestoreLocal(core) ==
    /\ boot.pc = core
    /\ LET t == tunnels[boot.i]
           plan == LocalPlan(core, t) IN
       \/ /\ plan = "skip"
          /\ boot' = Advance(boot)
          /\ UNCHANGED <<mgr, hist>>
       \/ /\ plan = "convert"
          /\ boot' = AfterRaise(core, boot)
          /\ UNCHANGED <<mgr, hist>>
       \/ /\ plan = "start"
          /\ mgr' = [mgr EXCEPT ![core] = @ \cup {boot.i}]
          /\ hist' = [hist EXCEPT !.starts[boot.i] = @ + 1,
                                  !.port[boot.i] = RestoreStartPort(core, t)]
          /\ boot' = Advance(boot)
       \/ /\ plan = "start"
          /\ hist' = [hist EXCEPT !.starts[boot.i] = @ + 1,
                                  !.port[boot.i] = RestoreStartPort(core, t),
                                  !.start_raised = @ \cup {boot.i}]
          /\ boot' = AfterRaise(core, boot)
          /\ UNCHANGED mgr
    /\ UNCHANGED <<nodes, tvars, rvars, tunnels, env_public_ip, panel_domain, gost>>

RestoreRathole == RestoreLocal("rathole")
RestoreBackhaul == RestoreLocal("backhaul")
RestoreChisel == RestoreLocal("chisel")
RestoreFrp == RestoreLocal("frp")

\* one iteration of the loop of _restore_node_tunnels
RestoreNodeTunnel ==
    /\ boot.pc = "node_tunnels"
    /\ LET t == tunnels[boot.i]
           plan == NodePlan(t, nodes, env_public_ip) IN
       \/ /\ plan \in {"skip", "raise"}
          /\ UNCHANGED <<nodes, hist, tunnels>>
       \/ /\ plan = "apply"
          /\ nodes' = [nodes EXCEPT ![t.node_id] = WithApiAddress(@, t.node_id)]
          /\ tunnels' = StoredAfterApply(tunnels, boot.i,
                            RestoreSpecForNode(t, nodes[t.node_id], env_public_ip,
                                               panel_domain))
          /\ \E r \in {"ok", "error", "raised"} :
                hist' = [hist EXCEPT !.applies[boot.i] = @ + 1,
                                     !.apply_result[boot.i] = r,
                                     !.sent[boot.i] =
                                        <<RestoreSpecForNode(t, nodes[t.node_id],
                                              env_public_ip, panel_domain)>>]
    /\ boot' = Advance(boot)
    /\ UNCHANGED <<tvars, rvars, env_public_ip, panel_domain, mgr, gost>>

\* reset_task = asyncio.create_task(_auto_reset_scheduler(app)); yield
StartScheduler ==
    /\ boot.pc = "start_scheduler"
    /\ boot' = [boot EXCEPT !.pc = NextPhase(boot.pc), !.reset_task = "running",
                            !.since = clock]
    /\ sch' = [sch EXCEPT !.pc = "sleeping"]
    /\ UNCHANGED <<nodes, tvars, tunnels, env_public_ip, panel_domain, mgr, gost, hist,
                   clock, cfg, man, runs, hc, rq, extra>>

\* the application is told to shut down: the code after yield starts
BeginShutdown ==
    /\ boot.pc = "serving"
    /\ boot' = [boot EXCEPT !.pc = "cancel_reset"]
    /\ UNCHANGED <<nodes, tvars, rvars, tunnels, env_public_ip, panel_domain, mgr, gost, hist>>

\* reset_task.cancel(); await reset_task
CancelResetTask ==
    /\ boot.pc = "cancel_reset"
    /\ boot' = [boot EXCEPT !.pc = "stop_h2", !.reset_task = "cancelled"]
    /\ UNCHANGED <<nodes, tvars, rvars, tunnels, env_public_ip, panel_domain, mgr, gost, hist>>

\* a shutdown step raises: nothing after yield is in a try/finally, the rest
\* of the shutdown code is not run
ShutdownStepRaises ==
    /\ boot.pc \in {"stop_h2", "cleanup_gost", "cleanup_rathole", "cleanup_backhaul",
                    "cleanup_chisel", "cleanup_frp"}
    /\ hist' = [hist EXCEPT !.shutdown_raised = boot.pc]
    /\ boot' = [boot EXCEPT !.pc = "stopped"]
    /\ UNCHANGED <<nodes, tvars, rvars, tunnels, env_public_ip, panel_domain, mgr, gost>>

\* await app.state.h2_server.stop()
StopH2 ==
    /\ boot.pc = "stop_h2"
    /\ boot' = [boot EXCEPT !.pc = "cleanup_gost"]
    /\ UNCHANGED <<nodes, tvars, rvars, tunnels, env_public_ip, panel_domain, mgr, gost, hist>>

\* gost_forwarder.cleanup_all()
CleanupGost ==
    /\ boot.pc = "cleanup_gost"
    /\ gost' = {}
    /\ boot' = [boot EXCEPT !.pc = "cleanup_rathole"]
    /\ UNCHANGED <<nodes, tvars, rvars, tunnels, env_public_ip, panel_domain, mgr, hist>>

CleanupPhase(core) ==
    CASE core = "rathole"  -> "cleanup_rathole"
      [] core = "backhaul" -> "cleanup_backhaul"
      [] core = "chisel"   -> "cleanup_chisel"
      [] OTHER             -> "cleanup_frp"

\* <core>_manager.cleanup_all()
CleanupAll(core) ==
    /\ boot.pc = CleanupPhase(core)
    /\ mgr' = [mgr EXCEPT ![core] = {}]
    /\ hist' = [hist EXCEPT !.cleanups = @ \cup {core}]
    /\ boot' = [boot EXCEPT !.pc = NextPhase(boot.pc)]
    /\ UNCHANGED <<nodes, tvars, rvars, tunnels, env_public_ip, panel_domain, gost>>

----------------------------------------------------------------------------
(* Reset configuration, manual reset, reset scheduler                        *)

MaxTime == 2                       \* the clock stops here
DefaultInterval == 10              \* interval_minutes of a row created on first use
MinInterval == 1
NoTime == -1                       \* a null last_reset / next_reset
NoChange == -1                     \* a field the update request leaves out (None)

\* backend-cores the admin requests of the model are made for
ResetCores == {"rathole", "frp"}
ManualCores == {"rathole"}
\* interval_minutes values of update requests: left out, rejected, accepted
IntervalInputs == {NoChange, 0, 1}
EnabledInputs == {"none", "true", "false"}

NoCfg == [present |-> FALSE, enabled |-> FALSE, interval |-> 0,
          last_reset |-> NoTime, next_reset |-> NoTime]
\* CoreResetConfig(core=core, enabled=False, interval_minutes=10)
DefaultCfg == [present |-> TRUE, enabled |-> FALSE, interval |-> DefaultInterval,
               last_reset |-> NoTime, next_reset |-> NoTime]

\* the tunnels of the store the resets run over
ResetStore(t) ==
    CASE t = 1 -> Tun("rathole", "active", "n1", RatholeSpec)
      [] t = 2 -> Tun("frp", "active", "n2", FrpSpec)
      [] OTHER -> Tun("chisel", "active", "n1", ChiselSpec)

\* mutant: after stop_server nothing is started again
ResetLocalPlan_StopsOnly(t) ==
    CASE t.core = "backhaul" -> "stop_only"
      [] t.core = "rathole" ->
            LET proxy_port == Or(t.spec.remote_port, t.spec.listen_port) IN
            IF t.spec.remote_addr = "" \/ t.spec.token = "" \/ ~Truthy(proxy_port) THEN "skip"
            ELSE "stop_only"
      [] t.core = "chisel" ->
            IF ~Truthy(Or(t.spec.server_port, t.spec.listen_port)) THEN "skip" ELSE "stop_only"
      [] OTHER ->
            IF ~Truthy(Get(t.spec.bind_port, DefaultBindPort)) THEN "skip" ELSE "stop_only"

\* _reset_core, local part, for an active tunnel t of the core:
\*   "skip"      nothing is stopped or started
\*   "stop_only" stop_server is called, then the int() conversion of the
\*               start's argument raises
\*   "restart"   stop_server, then start_server
ResetLocalPlan(t) ==
    CASE t.core = "backhaul" -> "restart"
      [] t.core = "rathole" ->
            LET proxy_port == Or(t.spec.remote_port, t.spec.listen_port) IN
            IF t.spec.remote_addr = "" \/ t.spec.token = "" \/ ~Truthy(proxy_port) THEN "skip"
            ELSE IF IntRaises(proxy_port) THEN "stop_only" ELSE "restart"
      [] t.core = "chisel" ->
            LET server_port == Or(t.spec.server_port, t.spec.listen_port) IN
            IF ~Truthy(server_port) THEN "skip"
            ELSE IF IntRaises(server_port) THEN "stop_only" ELSE "restart"
      [] OTHER ->
            LET bind_port == Get(t.spec.bind_port, DefaultBindPort) IN
            IF ~Truthy(bind_port) THEN "skip"
            ELSE IF IntRaises(bind_port) THEN "stop_only" ELSE "restart"

\* select(Tunnel).where(Tunnel.core == core, Tunnel.status == "active")
ActiveOf(core) == {t \in Tids : tunnels[t].core = core /\ IsActive(tunnels[t])}

\* the calls one run of _reset_core(core) issues
StopsOf(core) == {t \in ActiveOf(core) : ResetLocalPlan(tunnels[t]) # "skip"}
StartsOf(core) == {t \in ActiveOf(core) : ResetLocalPlan(tunnels[t]) = "restart"}

\* the manager's list after the run: stopped ids leave it, started ids are
\* in it
AfterReset(core) ==
    [mgr EXCEPT ![core] = (@ \ StopsOf(core)) \cup StartsOf(core)]

\* the scheduler task: its position and the locals of the wake under way
SchOff == [pc |-> "off", now |-> 0, rows |-> [c \in Cores |-> NoCfg], todo |-> {},
           cur |-> "", done |-> {}, failed |-> {}]
SchInit == [SchOff EXCEPT !.pc = "sleeping"]
\* the manual reset request under way
ManIdle == [pc |-> "idle", core |-> ""]

\* requests are served between startup and shutdown
Serving == boot.pc = "serving"

\* the scheduler task is waiting in an await; between the load of its rows
\* and the call of _reset_core it does not yield, and no request is served
Yielded == sch.pc # "loop"

\* time passes
Tick ==
    /\ clock < MaxTime - 1
    /\ clock' = clock + 1
    /\ UNCHANGED <<nodes, tvars, bvars, cfg, sch, man, runs, hc, rq, extra>>

\* GET /reset-config: a row with the defaults is created for every core
\* that has none
GetResetConfigs ==
    /\ Serving
    /\ Yielded
    /\ \E c \in Cores : ~cfg[c].present
    /\ cfg' = [c \in Cores |-> IF cfg[c].present THEN cfg[c] ELSE DefaultCfg]
    /\ UNCHANGED <<nodes, tvars, bvars, clock, sch, man, runs, hc, rq, extra>>

\* mutant: next_reset is always counted from the time of the request
UpdatedCfg_FromNow(row, enabled_in, interval_in, now) ==
    LET r0 == IF row.present THEN row ELSE DefaultCfg
        r1 == IF enabled_in = "none" THEN r0 ELSE [r0 EXCEPT !.enabled = (enabled_in = "true")]
        r2 == IF interval_in = NoChange THEN r1 ELSE [r1 EXCEPT !.interval = interval_in]
    IN  IF r2.enabled /\ r2.interval # 0
        THEN [r2 EXCEPT !.next_reset = now + r2.interval]
        ELSE [r2 EXCEPT !.next_reset = NoTime]

\* update_reset_config, the row after an accepted request
UpdatedCfg(row, enabled_in, interval_in, now) ==
    LET r0 == IF row.present THEN row ELSE DefaultCfg
        r1 == IF enabled_in = "none" THEN r0 ELSE [r0 EXCEPT !.enabled = (enabled_in = "true")]
        r2 == IF interval_in = NoChange THEN r1 ELSE [r1 EXCEPT !.interval = interval_in]
    IN  IF r2.enabled /\ r2.interval # 0
        THEN [r2 EXCEPT !.next_reset = IF r2.last_reset # NoTime
                                       THEN r2.last_reset + r2.interval
                                       ELSE now + r2.interval]
        ELSE [r2 EXCEPT !.next_reset = NoTime]

\* the request is rejected with HTTP 400
UpdateRejected(interval_in) == interval_in # NoChange /\ interval_in < MinInterval

\* PUT /reset-config/{core}
UpdateResetConfig ==
    /\ Serving
    /\ Yielded
    /\ \E core \in ResetCores, enabled_in \in EnabledInputs, interval_in \in IntervalInputs :
        cfg' = IF UpdateRejected(interval_in) THEN cfg
               ELSE [cfg EXCEPT ![core] = UpdatedCfg(@, enabled_in, interval_in, clock)]
    /\ cfg' # cfg
    /\ UNCHANGED <<nodes, tvars, bvars, clock, sch, man, runs, hc, rq, extra>>

\* POST /reset/{core}: _reset_core starts
ManualResetBegin ==
    /\ Serving
    /\ Yielded
    /\ man.pc = "idle"
    /\ \E core \in ManualCores : man' = [ManIdle EXCEPT !.pc = "resetting", !.core = core]
    /\ UNCHANGED <<nodes, tvars, bvars, clock, cfg, sch, runs, hc, rq, extra>>

\* manual_reset_core, the bookkeeping after _reset_core returned
ManualBookkeeping(row, now) ==
    IF ~row.present THEN row
    ELSE LET r == [row EXCEPT !.last_reset = now] IN
         IF r.enabled /\ r.interval # 0
         THEN [r EXCEPT !.next_reset = r.last_reset + r.interval]
         ELSE r

\* _reset_core returns and the bookkeeping is committed
ManualResetEnd ==
    /\ man.pc = "resetting"
    /\ Yielded
    /\ mgr' = AfterReset(man.core)
    /\ cfg' = [cfg EXCEPT ![man.core] = ManualBookkeeping(@, clock)]
    /\ man' = ManIdle
    /\ UNCHANGED <<nodes, tvars, tunnels, env_public_ip, panel_domain, gost, boot, hist, clock, sch, runs, hc, rq, extra>>

\* _reset_core raises (a query of it fails): HTTP 500, nothing is committed
ManualResetRaises ==
    /\ man.pc = "resetting"
    /\ Yielded
    /\ man' = ManIdle
    /\ UNCHANGED <<nodes, tvars, bvars, clock, cfg, sch, runs, hc, rq, extra>>

\* mutant: every enabled row with a next_reset is taken as due
DueRows_IgnoresTime(rows, now) ==
    {c \in Cores : rows[c].present /\ rows[c].enabled /\ rows[c].next_reset # NoTime}

\* the rows of a wake whose reset is due: enabled, next_reset set and passed
DueRows(rows, now) ==
    {c \in Cores : /\ rows[c].present /\ rows[c].enabled
                   /\ rows[c].next_reset # NoTime
                   /\ now >= rows[c].next_reset}

\* await asyncio.sleep(60) returns; the enabled rows are loaded; now = utcnow()
SchedWake ==
    /\ sch.pc = "sleeping"
    /\ clock < MaxTime
    /\ clock' = clock + 1
    /\ sch' = [sch EXCEPT !.pc = "loop", !.now = clock + 1,
                          !.rows = [c \in Cores |-> IF cfg[c].present /\ cfg[c].enabled
                                                    THEN cfg[c] ELSE NoCfg],
                          !.todo = DueRows([c \in Cores |-> IF cfg[c].present /\ cfg[c].enabled
                                                            THEN cfg[c] ELSE NoCfg], clock + 1),
                          !.cur = "", !.done = {}, !.failed = {}]
    /\ UNCHANGED <<nodes, tvars, bvars, cfg, man, runs, hc, rq, extra>>

\* the for loop reaches the next due row and calls _reset_core, or ends
SchedNext ==
    /\ sch.pc = "loop"
    /\ \/ /\ sch.todo = {}
          /\ sch' = [SchInit EXCEPT !.failed = sch.failed]
       \/ \E c \in sch.todo :
            sch' = [sch EXCEPT !.pc = "resetting", !.cur = c, !.todo = @ \ {c},
                              !.done = @ \cup {c}]
    /\ UNCHANGED <<nodes, tvars, bvars, clock, cfg, man, runs, hc, rq, extra>>

\* mutant: only next_reset is written
SchedBookkeeping_KeepsLast(row, loaded, now) ==
    [row EXCEPT !.next_reset = now + loaded.interval]

\* config.last_reset = now; config.next_reset = now + interval; commit: the
\* two fields are written to the stored row
SchedBookkeeping(row, loaded, now) ==
    [row EXCEPT !.last_reset = now, !.next_reset = now + loaded.interval]

\* _reset_core returned: bookkeeping and commit
SchedResetEnd ==
    /\ sch.pc = "resetting"
    /\ mgr' = AfterReset(sch.cur)
    /\ cfg' = [cfg EXCEPT ![sch.cur] = SchedBookkeeping(@, sch.rows[sch.cur], sch.now)]
    /\ sch' = [sch EXCEPT !.pc = "loop"]
    /\ UNCHANGED <<nodes, tvars, tunnels, env_public_ip, panel_domain, gost, boot, hist, clock, man, runs, hc, rq, extra>>

\* mutant: the failure is caught by the outer handler, which ends the wake
AfterResetRaises_EndsWake(s) ==
    [s EXCEPT !.pc = "loop", !.failed = @ \cup {s.cur}, !.todo = {}]

\* the inner handler: the failure is logged, the for loop goes on
AfterResetRaises(s) == [s EXCEPT !.pc = "loop", !.failed = @ \cup {s.cur}]

\* _reset_core raised: logged, db.rollback()
SchedResetRaises ==
    /\ sch.pc = "resetting"
    /\ sch' = AfterResetRaises(sch)
    /\ UNCHANGED <<nodes, tvars, bvars, clock, cfg, man, runs, hc, rq, extra>>

\* shutdown, once the requests in flight have ended: reset_task.cancel();
\* CancelledError ends the loop wherever the task is waiting
SchedCancel ==
    /\ Serving
    /\ man.pc = "idle"
    /\ sch.pc \in {"sleeping", "loop", "resetting"}
    /\ sch' = [SchOff EXCEPT !.pc = "cancelled"]
    /\ boot' = [boot EXCEPT !.pc = "stop_h2", !.reset_task = "cancelled"]
    /\ UNCHANGED <<nodes, tvars, tunnels, env_public_ip, panel_domain, mgr, gost, hist, clock, cfg, man, runs, hc, rq, extra>>

----------------------------------------------------------------------------
(* _reset_core followed call by call: two resets that may run together      *)

Runs == {"r1", "r2"}
\* the runs are named in the order in which they begin
FirstRun == "r1"
RunKinds == {"manual", "sched"}
\* backend-cores the runs of the model reset
RunCores == {"rathole", "frp", "chisel"}

\* a run of manual_reset_core or of one firing of the scheduler:
\*   active  the tunnels loaded by _reset_core,   i  the loop position,
\*   row/now the row and time the scheduler loaded at its wake,
\*   calls   the manager and node calls issued so far
RunIdle == [pc |-> "idle", kind |-> "", core |-> "", active |-> <<>>, i |-> 1,
            row |-> NoCfg, now |-> 0, calls |-> <<>>,
            port |-> [t \in Tids |-> Missing],
            first |-> "", before |-> {}, start_failed |-> FALSE]

\* the tunnel rows the store of the runs is populated from
RunRows ==
    { Tun("rathole", "active", "n1", RatholeSpec),
      Tun("rathole", "active", "n2", [RatholeSpec EXCEPT !.token = ""]),
      Tun("rathole", "active", "n9", [RatholeSpec EXCEPT !.remote_port = NonNumeric]),
      Tun("rathole", "inactive", "n1", RatholeSpec),
      Tun("frp", "active", "n2", FrpSpec) }

\* the tunnel rows of the store that is reconciled and then reset
ApplyRows ==
    RunRows \cup { Tun("chisel", "active", "n1", ChiselSpec),
                   Tun("frp", "active", "n1", [FrpSpec EXCEPT !.bind_port = 7100]) }

\* an enabled row whose reset is due from the start
DueCfg == [DefaultCfg EXCEPT !.enabled = TRUE, !.interval = MinInterval, !.next_reset = 0]

\* result.scalars().all() of the select of _reset_core, in store order
ActiveSeq(core) ==
    SelectSeq([t \in Tids |-> t],
              LAMBDA t : tunnels[t].core = core /\ IsActive(tunnels[t]))

\* the order in which the node loop visits the node ids of the set
NodeOrder == <<"n1", "n2", "n9">>

\* the tunnels of the node part in the order they are visited: node by
\* node, the tunnels of a node in the order of active_tunnels; tunnels
\* without a node id and tunnels of a node that is not found are left out
RECURSIVE NodeSeqFrom(_, _)
NodeSeqFrom(active, k) ==
    IF k > Len(NodeOrder) THEN <<>>
    ELSE (IF nodes[NodeOrder[k]].present
          THEN SelectSeq(active, LAMBDA t : tunnels[t].node_id = NodeOrder[k])
          ELSE <<>>) \o NodeSeqFrom(active, k + 1)
NodeSeq(active) == NodeSeqFrom(active, 1)

\* _reset_core, node part, for tunnel t of a node that was found:
\*   "skip" (continue), "raise" (caught for this tunnel), "apply"
ResetNodePlan(t, node_rows, public_ip) ==
    LET listen_port == Or(Or(t.spec.listen_port, t.spec.remote_port), t.spec.server_port) IN
    CASE t.core = "chisel" ->
            IF ~Truthy(listen_port) THEN "skip"
            ELSE IF Truthy(t.spec.control_port)
                 THEN (IF IntRaises(t.spec.control_port) \/ IntRaises(listen_port)
                       THEN "raise" ELSE "apply")
                 ELSE (IF IntRaises(listen_port) THEN "raise" ELSE "apply")
      [] t.core = "frp" ->
            IF node_rows[t.node_id].panel_address # ""
            THEN (IF IntRaises(Get(t.spec.bind_port, DefaultBindPort))
                  THEN "raise" ELSE "apply")
            ELSE (IF PublicIpUsable(public_ip) THEN "apply" ELSE "skip")
      [] OTHER -> "apply"

\* reverse_spec of _reset_core: the stored one, else R:<listen
\* port>:<local_addr>:<local_port> with local_addr 127.0.0.1 by default
ReverseSpec(spec) ==
    IF spec.reverse_spec # <<>> THEN spec.reverse_spec
    ELSE <<"R", ChiselListenPort(spec),
           IF spec.local_addr = "" THEN "127.0.0.1" ELSE spec.local_addr,
           spec.local_port>>

\* spec_for_node of _reset_core for a tunnel whose plan is "apply": a new
\* dict for rathole and chisel, a copy of the stored spec for frp and
\* backhaul
ResetSpecForNode(t, row, public_ip) ==
    CASE t.core = "rathole" ->
            [remote_addr |-> <<HostOf(t.spec.remote_addr),
                               Or(t.spec.remote_port, t.spec.listen_port)>>,
             token |-> t.spec.token]
      [] t.core = "chisel" ->
            [server_url |-> <<Bracketed(ResetChiselHost(t.spec, row, public_ip)),
                              ChiselControlPort(t.spec)>>,
             reverse_spec |-> ReverseSpec(t.spec)]
      [] t.core = "frp" -> FrpSpecForNode(t.spec, row, public_ip)
      [] OTHER -> t.spec

\* a call of a manager, and the apply-tunnel call of a node with its spec
Call(op, t) == <<op, t>>
ApplyCall(t, spec_for_node) == <<"apply", t, spec_for_node>>

\* the scheduler task runs one reset at a time
SchedulerFree(r) == \A q \in Runs \ {r} : runs[q].kind = "sched" => runs[q].pc \in {"finished", "failed"}

\* the resets of a core that are under way
InProgress(core) == {q \in Runs : runs[q].core = core /\ runs[q].pc \notin {"idle", "finished", "failed"}}

\* the run that began first among the resets of the core now under way
OpenedBy(r, core) ==
    IF InProgress(core) \ {r} = {} THEN r
    ELSE runs[CHOOSE q \in InProgress(core) \ {r} : TRUE].first

\* the tunnel ids the manager of the core listed when the resets now under
\* way began
RunningBefore(r, core) ==
    IF InProgress(core) \ {r} = {} THEN mgr[core]
    ELSE runs[CHOOSE q \in InProgress(core) \ {r} : TRUE].before

\* manual_reset_core is called, or the scheduler reaches a due row of its
\* wake; _reset_core loads the active tunnels of the core
CoreBegin(r) ==
    /\ runs[r].pc = "idle"
    /\ r # FirstRun => runs[FirstRun].pc # "idle"
    /\ \E kind \in RunKinds, core \in RunCores :
        /\ kind = "sched" => SchedulerFree(r) /\ core \in DueRows(cfg, clock)
        /\ runs' = [runs EXCEPT ![r] =
                        [RunIdle EXCEPT !.pc = "local", !.kind = kind, !.core = core,
                                        !.active = ActiveSeq(core),
                                        !.row = IF kind = "sched" THEN cfg[core] ELSE NoCfg,
                                        !.now = IF kind = "sched" THEN clock ELSE 0,
                                        !.first = OpenedBy(r, core),
                                        !.before = RunningBefore(r, core)]]
    /\ UNCHANGED <<nodes, tvars, bvars, clock, cfg, sch, man, hc, rq, extra>>

\* the local loop reaches a tunnel: it is left alone, or stop_server is
\* called and the run waits in asyncio.sleep(0.5)
CoreStop(r) ==
    /\ runs[r].pc = "local"
    /\ LET run == runs[r] IN
       IF run.i > Len(run.active)
       THEN /\ runs' = [runs EXCEPT ![r].pc = "node", ![r].i = 1]
            /\ UNCHANGED mgr
       ELSE LET t == run.active[run.i] IN
            IF ResetLocalPlan(tunnels[t]) = "skip"
            THEN /\ runs' = [runs EXCEPT ![r].i = @ + 1]
                 /\ UNCHANGED mgr
            ELSE /\ runs' = [runs EXCEPT ![r].pc = "pause",
                                         ![r].calls = Append(@, Call("stop", t))]
                 /\ mgr' = [mgr EXCEPT ![run.core] = @ \ {t}]
    /\ UNCHANGED <<nodes, tvars, tunnels, env_public_ip, panel_domain, gost, boot, hist, clock, cfg, sch, man, hc, rq, extra>>

\* the port start_server is called with by _reset_core: for chisel
\* server_port or listen_port of the stored spec
ResetStartPort(t) ==
    CASE t.core = "rathole" -> Or(t.spec.remote_port, t.spec.listen_port)
      [] t.core = "chisel"  -> Or(t.spec.server_port, t.spec.listen_port)
      [] t.core = "frp"     -> Get(t.spec.bind_port, DefaultBindPort)
      [] OTHER              -> Missing

\* the pause is over: start_server is called and lists the tunnel or
\* raises, or the conversion of its argument raises before the call
CoreStart(r) ==
    /\ runs[r].pc = "pause"
    /\ LET run == runs[r]
           t == run.active[run.i] IN
       IF ResetLocalPlan(tunnels[t]) = "stop_only"
       THEN /\ runs' = [runs EXCEPT ![r].pc = "local", ![r].i = @ + 1]
            /\ UNCHANGED mgr
       ELSE \/ /\ runs' = [runs EXCEPT ![r].pc = "local", ![r].i = @ + 1,
                                       ![r].calls = Append(@, Call("start", t)),
                                       ![r].port[t] = ResetStartPort(tunnels[t])]
               /\ mgr' = [mgr EXCEPT ![run.core] = @ \cup {t}]
            \/ /\ runs' = [runs EXCEPT ![r].pc = "local", ![r].i = @ + 1,
                                       ![r].calls = Append(@, Call("start", t)),
                                       ![r].port[t] = ResetStartPort(tunnels[t]),
                                       ![r].start_failed = TRUE]
               /\ UNCHANGED mgr
    /\ UNCHANGED <<nodes, tvars, tunnels, env_public_ip, panel_domain, gost, boot, hist, clock, cfg, sch, man, hc, rq, extra>>

\* the node loop reaches a tunnel: its spec for the node is derived and
\* apply_tunnel is called, or the tunnel is passed over
CoreApply(r) ==
    /\ runs[r].pc = "node"
    /\ LET run == runs[r]
           seq == NodeSeq(run.active) IN
       IF run.i > Len(seq)
       THEN /\ runs' = [runs EXCEPT ![r].pc = "return", ![r].i = 1]
            /\ UNCHANGED tunnels
       ELSE LET t == seq[run.i]
                spec_for_node == ResetSpecForNode(tunnels[t], nodes[tunnels[t].node_id],
                                                  env_public_ip) IN
            IF ResetNodePlan(tunnels[t], nodes, env_public_ip) = "apply"
            THEN /\ runs' = [runs EXCEPT ![r].i = @ + 1,
                                         ![r].calls = Append(@, ApplyCall(t, spec_for_node))]
                 /\ tunnels' = StoredAfterApply(tunnels, t, spec_for_node)
            ELSE /\ runs' = [runs EXCEPT ![r].i = @ + 1]
                 /\ UNCHANGED tunnels
    /\ UNCHANGED <<nodes, tvars, env_public_ip, panel_domain, mgr, gost, boot, hist, clock, cfg, sch, man, hc, rq, extra>>

\* _reset_core has returned: the caller writes its bookkeeping
CoreReturn(r) ==
    /\ runs[r].pc = "return"
    /\ LET run == runs[r] IN
       cfg' = [cfg EXCEPT ![run.core] =
                    IF run.kind = "manual" THEN ManualBookkeeping(@, clock)
                    ELSE SchedBookkeeping(@, run.row, run.now)]
    /\ runs' = [runs EXCEPT ![r].pc = "finished"]
    /\ UNCHANGED <<nodes, tvars, bvars, clock, sch, man, hc, rq, extra>>

\* mutant: the time of the failed reset is kept as last_reset
AfterCoreRaises_Bookkept(rows, run, now) ==
    [rows EXCEPT ![run.core] = IF @.present THEN [@ EXCEPT !.last_reset = now] ELSE @]

\* the CoreResetConfig rows after _reset_core raised: the scheduler's handler
\* rolls back and the manual handler raises HTTP 500, both before anything
\* was set on the row
AfterCoreRaises(rows, run, now) == rows

\* the first node query of _reset_core raises: the caller's handler, no
\* bookkeeping
CoreRaises(r) ==
    /\ runs[r].pc = "node"
    /\ runs[r].i = 1
    /\ runs' = [runs EXCEPT ![r].pc = "failed"]
    /\ cfg' = AfterCoreRaises(cfg, runs[r], clock)
    /\ UNCHANGED <<nodes, tvars, bvars, clock, sch, man, hc, rq, extra>>

----------------------------------------------------------------------------
(* get_core_health: the health snapshot                                     *)

\* app.state.<core>_manager as get_core_health finds it: lifespan() sets the
\* four managers before the application serves, and get_active_servers
\* answers with the ids the manager lists
ManagerStates == {"ok"}

\* what get_tunnel_status can end in: an exchange outcome, or the exception
\* of _get_node_address
Probes == Outcomes \cup {"raised"}

NoNodeStatus == [healthy |-> FALSE, status |-> "", active_tunnels |-> 0]
NoCoreHealth == [panel_status |-> "unknown", panel_healthy |-> FALSE,
                 nodes_status |-> [n \in NodeIds |-> NoNodeStatus]]

\* the request: ci is the position in CORES, todo the node ids still to
\* visit for that core, snap the health_data built so far (status "" is a
\* node id without an entry), probed what each status request ended in
HcIdle == [pc |-> "idle", ci |-> 1, todo |-> <<>>,
           snap |-> [c \in Cores |-> NoCoreHealth],
           probed |-> [c \in Cores |-> [n \in NodeIds |-> <<"", "">>]]]

\* mutant: a core without active tunnels is healthy only if its manager
\* lists a process
PanelHealth_NeedsProcess(n_active, manager, active_servers) ==
    CASE manager = "raises" -> <<"error", FALSE>>
      [] manager = "absent" -> <<IF n_active > 0 THEN "error" ELSE "healthy", n_active = 0>>
      [] OTHER -> <<IF active_servers # {} THEN "healthy" ELSE "error", active_servers # {}>>

\* <<panel_status, panel_healthy>> of one core
PanelHealth(n_active, manager, active_servers) ==
    CASE manager = "raises" -> <<"error", FALSE>>
      [] manager = "absent" -> <<IF n_active > 0 THEN "error" ELSE "healthy", n_active = 0>>
      [] OTHER -> IF n_active > 0
                  THEN <<IF active_servers # {} THEN "healthy" ELSE "error",
                         active_servers # {}>>
                  ELSE <<"healthy", TRUE>>

\* node_status after the status request: response is what get_tunnel_status
\* returned, raised says that it raised instead
NodeStatus(response, raised, n_tunnels) ==
    IF raised THEN [healthy |-> FALSE, status |-> "error", active_tunnels |-> n_tunnels]
    ELSE IF response.status = "ok"
         THEN [healthy |-> TRUE, status |-> "connected", active_tunnels |-> n_tunnels]
         ELSE [healthy |-> FALSE, status |-> "disconnected", active_tunnels |-> n_tunnels]

\* the node ids of the active tunnels of a core, in the order the loop
\* visits the set
HealthNodeSeq(core) ==
    SelectSeq(NodeOrder, LAMBDA n : \E t \in Tids :
                  /\ tunnels[t].core = core /\ IsActive(tunnels[t])
                  /\ tunnels[t].node_id = n)

\* mutant: the default address of _get_node_address is written to the row
StoreAfterProbe_WritesDefault(node_rows, n) ==
    [node_rows EXCEPT ![n].api_address = DefaultApi]

\* the Node table after a status request: get_tunnel_status and
\* get_core_health only read
StoreAfterProbe(node_rows, n) == node_rows

\* GET /health arrives
HealthBegin ==
    /\ Serving
    /\ hc.pc \in {"idle", "done"}
    /\ hc' = [HcIdle EXCEPT !.pc = "panel"]
    /\ UNCHANGED <<nodes, tvars, bvars, clock, cfg, sch, man, runs, rq, extra>>

\* the panel part for the next core of CORES
HealthPanel ==
    /\ hc.pc = "panel"
    /\ LET core == CORES[hc.ci] IN
       \E manager \in ManagerStates :
         LET ph == PanelHealth(Len(ActiveSeq(core)), manager, mgr[core]) IN
         hc' = [hc EXCEPT !.pc = "node", !.todo = HealthNodeSeq(core),
                          !.snap[core].panel_status = ph[1],
                          !.snap[core].panel_healthy = ph[2]]
    /\ UNCHANGED <<nodes, tvars, bvars, clock, cfg, sch, man, runs, rq, extra>>

\* the node loop: a node that is not found is passed over, a node that is
\* found is asked for its status; after the last node the core's entry is
\* appended
HealthNode ==
    /\ hc.pc = "node"
    /\ LET core == CORES[hc.ci] IN
       IF hc.todo = <<>>
       THEN /\ hc' = IF hc.ci = Len(CORES) THEN [hc EXCEPT !.pc = "done"]
                     ELSE [hc EXCEPT !.pc = "panel", !.ci = @ + 1]
            /\ UNCHANGED nodes
       ELSE LET n == Head(hc.todo) IN
            IF ~nodes[n].present
            THEN /\ hc' = [hc EXCEPT !.todo = Tail(@)]
                 /\ UNCHANGED nodes
            ELSE \E o \in Probes, body \in NodeReplies, decodes \in BOOLEAN :
                    LET response == IF o = "raised" THEN NoRes
                                    ELSE AfterStatus(LoadNode("status", n), o, body,
                                                     decodes).result
                        n_tunnels == Len(SelectSeq(ActiveSeq(core),
                                             LAMBDA t : tunnels[t].node_id = n)) IN
                    /\ hc' = [hc EXCEPT !.todo = Tail(@),
                                !.snap[core].nodes_status[n] =
                                    NodeStatus(response, o = "raised", n_tunnels),
                                !.probed[core][n] = <<o, IF o = "ok" THEN body ELSE "">>]
                    /\ nodes' = StoreAfterProbe(nodes, n)
    /\ UNCHANGED <<tvars, bvars, clock, cfg, sch, man, runs, rq, extra>>

----------------------------------------------------------------------------
(* _restore_node_tunnels followed through each send_to_node                 *)

\* the result of the awaited send_to_node as the loop body sees it
BatchResult(d) ==
    IF d.pc = "raised" THEN "raised"
    ELSE IF d.result.status = "error" THEN "error" ELSE "ok"

\* the loop reaches a tunnel: it is passed over, or its spec is derived and
\* send_to_node is called; the loop body then waits for the call
BatchSend ==
    /\ boot.pc = "node_tunnels"
    /\ dl.pc = "idle"
    /\ LET t == tunnels[boot.i]
           plan == NodePlan(t, nodes, env_public_ip) IN
       IF plan = "apply"
       THEN /\ nodes' = [nodes EXCEPT ![t.node_id] = WithApiAddress(@, t.node_id)]
            /\ dl' = LoadNode("send", t.node_id)
            /\ hist' = [hist EXCEPT !.applies[boot.i] = @ + 1,
                                    !.sent[boot.i] =
                                        <<RestoreSpecForNode(t, nodes[t.node_id],
                                              env_public_ip, panel_domain)>>]
            /\ UNCHANGED boot
       ELSE /\ boot' = Advance(boot)
            /\ UNCHANGED <<nodes, dl, hist>>
    /\ UNCHANGED <<settings_frp, ncl, tunnels, env_public_ip, panel_domain, mgr, gost, rvars>>

\* response = await client.send_to_node(...) returns or raises: the result
\* is logged and the loop goes on with the next tunnel
BatchAwait ==
    /\ boot.pc = "node_tunnels"
    /\ dl.pc \in {"done", "raised"}
    /\ hist' = [hist EXCEPT !.apply_result[boot.i] = BatchResult(dl)]
    /\ dl' = DlIdle
    /\ boot' = Advance(boot)
    /\ UNCHANGED <<settings_frp, nodes, ncl, tunnels, env_public_ip, panel_domain, mgr, gost, rvars>>

----------------------------------------------------------------------------
(* The /reset-config requests, statement by statement                      *)

Requests == {"g1", "g2", "p1"}
Getters == {"g1", "g2"}

\* a request: "idle", then "select" (before a select by core), "commit"
\* (before db.commit()), and "returned" or "failed" at its end
RqIdle == [pc |-> "idle", ci |-> 1, core |-> "", found |-> FALSE, row |-> NoCfg]
NoExtra == [c \in Cores |-> 0]

\* mutant: the row of a first read is created enabled
CreatedConfig_Enabled(core) == [DefaultCfg EXCEPT !.enabled = TRUE]

\* CoreResetConfig(core=core, enabled=False, interval_minutes=10) of
\* get_reset_configs
CreatedConfig(core) == DefaultCfg

\* INSERT of a CoreResetConfig at commit: the store is keyed by core, a
\* second row of a core is refused and the commit raises
InsertRow(rows, more, core, row) ==
    IF rows[core].present
    THEN [ok |-> FALSE, rows |-> rows, more |-> more]
    ELSE [ok |-> TRUE, rows |-> [rows EXCEPT ![core] = row], more |-> more]

\* the {core} of a PUT: cores of CORES and a name that is not one
PutCores == ResetCores \cup {"gost"}

\* a request arrives: GET /reset-config, or PUT /reset-config/{core}, which
\* ends with HTTP 400 when core is not in CORES
RqBegin(q) ==
    /\ Serving
    /\ rq[q].pc = "idle"
    /\ IF q \in Getters
       THEN rq' = [rq EXCEPT ![q].pc = "select"]
       ELSE \E core \in PutCores :
                rq' = [rq EXCEPT ![q].pc = IF core \in Cores THEN "select" ELSE "rejected",
                                ![q].core = core]
    /\ UNCHANGED <<nodes, tvars, bvars, clock, cfg, sch, man, runs, hc, extra>>

\* get_reset_configs: the select of the loop; scalar_one_or_none() raises
\* when the core has several rows; a core with a row is appended, a core
\* without one gets a new CoreResetConfig added to the session
GetSelect(q) ==
    /\ q \in Getters
    /\ rq[q].pc = "select"
    /\ LET ci == rq[q].ci IN
       IF ci > Len(CORES) THEN rq' = [rq EXCEPT ![q].pc = "returned"]
       ELSE IF extra[CORES[ci]] > 0 THEN rq' = [rq EXCEPT ![q].pc = "failed"]
       ELSE IF cfg[CORES[ci]].present THEN rq' = [rq EXCEPT ![q].ci = @ + 1]
       ELSE rq' = [rq EXCEPT ![q].pc = "commit", ![q].row = CreatedConfig(CORES[ci])]
    /\ UNCHANGED <<nodes, tvars, bvars, clock, cfg, sch, man, runs, hc, extra>>

\* get_reset_configs: db.add(config); await db.commit()
GetCommit(q) ==
    /\ q \in Getters
    /\ rq[q].pc = "commit"
    /\ LET ins == InsertRow(cfg, extra, CORES[rq[q].ci], rq[q].row) IN
       /\ cfg' = ins.rows
       /\ extra' = ins.more
       /\ rq' = IF ins.ok THEN [rq EXCEPT ![q].pc = "select", ![q].ci = @ + 1]
                ELSE [rq EXCEPT ![q].pc = "failed"]
    /\ UNCHANGED <<nodes, tvars, bvars, clock, sch, man, runs, hc>>

\* update_reset_config, the CoreResetConfig held by the session when the
\* test of the interval is reached: the row found or a new one, with the
\* request's enabled set on it
PendingRow(row, enabled_in) ==
    LET r0 == IF row.present THEN row ELSE DefaultCfg IN
    IF enabled_in = "none" THEN r0 ELSE [r0 EXCEPT !.enabled = (enabled_in = "true")]

\* mutant: the session's row is written when the request is rejected
AfterRejected_Written(rows, core, pending) == [rows EXCEPT ![core] = pending]

\* raise HTTPException(400): db.commit() is not reached and the session
\* ends with the request, the stored rows are as they were
AfterRejected(rows, core, pending) == rows

\* update_reset_config: the select, and the fields set on the row found or
\* on a new one; an interval below 1 ends the request with HTTP 400
PutSelect(q) ==
    /\ q \notin Getters
    /\ rq[q].pc = "select"
    /\ \E enabled_in \in EnabledInputs, interval_in \in IntervalInputs :
        IF extra[rq[q].core] > 0
        THEN /\ rq' = [rq EXCEPT ![q].pc = "failed"]
             /\ UNCHANGED cfg
        ELSE IF UpdateRejected(interval_in)
        THEN /\ rq' = [rq EXCEPT ![q].pc = "rejected",
                                 ![q].found = cfg[rq[q].core].present,
                                 ![q].row = PendingRow(cfg[rq[q].core], enabled_in)]
             /\ cfg' = AfterRejected(cfg, rq[q].core,
                                     PendingRow(cfg[rq[q].core], enabled_in))
        ELSE /\ rq' = [rq EXCEPT ![q].pc = "commit",
                                 ![q].found = cfg[rq[q].core].present,
                                 ![q].row = UpdatedCfg(cfg[rq[q].core], enabled_in,
                                                       interval_in, clock)]
             /\ UNCHANGED cfg
    /\ UNCHANGED <<nodes, tvars, bvars, clock, sch, man, runs, hc, extra>>

\* update_reset_config: await db.commit(), an UPDATE of the row found or
\* the INSERT of the new one
PutCommit(q) ==
    /\ q \notin Getters
    /\ rq[q].pc = "commit"
    /\ IF rq[q].found
       THEN /\ cfg' = [cfg EXCEPT ![rq[q].core] = rq[q].row]
            /\ rq' = [rq EXCEPT ![q].pc = "returned"]
            /\ UNCHANGED extra
       ELSE LET ins == InsertRow(cfg, extra, rq[q].core, rq[q].row) IN
            /\ cfg' = ins.rows
            /\ extra' = ins.more
            /\ rq' = [rq EXCEPT ![q].pc = IF ins.ok THEN "returned" ELSE "failed"]
    /\ UNCHANGED <<nodes, tvars, bvars, clock, sch, man, runs, hc>>

----------------------------------------------------------------------------
(* Specifications                                                           *)

ResetOff ==
    /\ clock = 0
    /\ cfg = [c \in Cores |-> NoCfg]
    /\ sch = SchOff
    /\ man = ManIdle
    /\ runs = [r \in Runs |-> RunIdle]
    /\ hc = HcIdle
    /\ rq = [q \in Requests |-> RqIdle]
    /\ extra = NoExtra

BootOff == [pc |-> "off", i |-> 1, reset_task |-> "none", since |-> 0]

InitBoot ==
    /\ settings_frp = "absent"
    /\ ncl = [n \in Nodes |-> NclInit]
    /\ dl = DlIdle
    /\ \E panel \in PanelAddrs, api \in {NoAddr, Addr("http", "n2", NodeApiPort)} :
        nodes = [n \in NodeIds |->
                    CASE n = "n1" -> Row(Addr("http", "n1", NodeApiPort), 0,
                                         "http://panel.example:8000")
                      [] n = "n2" -> Row(api, 0, panel)
                      [] OTHER    -> NoNode]
    /\ tunnels \in [Tids -> TunnelRows]
    /\ env_public_ip \in {"", "203.0.113.5"}
    /\ panel_domain = ""
    /\ mgr = [c \in Cores |-> {}]
    /\ gost = {}
    /\ boot = BootInit
    /\ hist = HistInit
    /\ ResetOff

NextBoot ==
    \/ RestoreForwards
    \/ RestoreRathole
    \/ RestoreBackhaul
    \/ RestoreChisel
    \/ RestoreFrp
    \/ RestoreNodeTunnel
    \/ StartScheduler
    \/ BeginShutdown
    \/ CancelResetTask
    \/ StopH2
    \/ CleanupGost
    \/ \E core \in Cores : CleanupAll(core)
    \/ ShutdownStepRaises

SpecBoot == InitBoot /\ [][NextBoot]_vars

InitTransport ==
    /\ settings_frp \in {"absent", "disabled", "enabled"}
    /\ nodes = [n \in NodeIds |-> NoNode]
    /\ ncl = [n \in Nodes |-> NclInit]
    /\ dl = DlIdle
    /\ tunnels = [t \in Tids |-> Tun("xray", "inactive", "", BaseSpec)]
    /\ env_public_ip = ""
    /\ panel_domain = ""
    /\ mgr = [c \in Cores |-> {}]
    /\ gost = {}
    /\ boot = BootOff
    /\ hist = HistInit
    /\ ResetOff

NextTransport ==
    \/ \E n \in Nodes : RegisterOk(n)
    \/ \E n \in Nodes : RegisterFail(n)
    \/ \E n \in Nodes : SetupFrp(n)
    \/ \E n \in Nodes : ReportFrpStatus(n)
    \/ SetFrpSettings
    \/ DeliverStart
    \/ DeliverResolve
    \/ DeliverResolveRaises
    \/ DeliverProbe
    \/ DeliverAttempt
    \/ DeliverSleep

SpecTransport == InitTransport /\ [][NextTransport]_vars

\* a node's registration coroutine, once started, runs to its end: every
\* await of register_with_panel and _setup_frp returns or times out
NodeStep(n) == RegisterOk(n) \/ RegisterFail(n) \/ SetupFrp(n) \/ ReportFrpStatus(n)

SpecTransportFair == SpecTransport /\ \A n \in Nodes : WF_vars(NodeStep(n))

InitReset ==
    /\ settings_frp = "absent"
    /\ ncl = [n \in Nodes |-> NclInit]
    /\ dl = DlIdle
    /\ nodes = [n \in NodeIds |->
                    IF n \in Nodes
                    THEN Row(Addr("http", n, NodeApiPort), 0, "http://panel.example:8000")
                    ELSE NoNode]
    /\ tunnels = [t \in Tids |-> ResetStore(t)]
    /\ env_public_ip = ""
    /\ panel_domain = ""
    /\ mgr = [c \in Cores |-> ActiveOf(c)]
    /\ gost = {}
    /\ boot = [BootOff EXCEPT !.pc = "serving", !.reset_task = "running"]
    /\ hist = HistInit
    /\ clock = 0
    /\ cfg = [c \in Cores |-> NoCfg]
    /\ sch = SchInit
    /\ man = ManIdle
    /\ runs = [r \in Runs |-> RunIdle]
    /\ hc = HcIdle
    /\ rq = [q \in Requests |-> RqIdle]
    /\ extra = NoExtra

SchedStep == SchedWake \/ SchedNext \/ SchedResetEnd \/ SchedResetRaises

NextReset ==
    \/ Tick
    \/ GetResetConfigs
    \/ UpdateResetConfig
    \/ ManualResetBegin
    \/ ManualResetEnd
    \/ ManualResetRaises
    \/ SchedWake
    \/ SchedNext
    \/ SchedResetEnd
    \/ SchedResetRaises
    \/ SchedCancel

SpecReset == InitReset /\ [][NextReset]_vars

\* the event loop runs the scheduler task whenever it can take a step
SpecResetFair == SpecReset /\ WF_vars(SchedStep)

InitCore ==
    /\ settings_frp = "absent"
    /\ ncl = [n \in Nodes |-> NclInit]
    /\ dl = DlIdle
    /\ nodes = [n \in NodeIds |->
                    IF n \in Nodes
                    THEN Row(Addr("http", n, NodeApiPort), 0, "http://panel.example:8000")
                    ELSE NoNode]
    /\ tunnels \in [Tids -> RunRows]
    /\ env_public_ip = ""
    /\ panel_domain = ""
    /\ mgr = [c \in Cores |-> {t \in ActiveOf(c) : LocalPlan(c, tunnels[t]) = "start"}]
    /\ gost = {}
    /\ boot = [BootOff EXCEPT !.pc = "serving", !.reset_task = "running"]
    /\ hist = HistInit
    /\ clock = 0
    /\ \E row \in {NoCfg, DueCfg} : cfg = [c \in Cores |-> row]
    /\ sch = SchInit
    /\ man = ManIdle
    /\ runs = [r \in Runs |-> RunIdle]
    /\ hc = HcIdle
    /\ rq = [q \in Requests |-> RqIdle]
    /\ extra = NoExtra

NextCore ==
    \/ Tick
    \/ \E r \in Runs : CoreBegin(r)
    \/ \E r \in Runs : CoreStop(r)
    \/ \E r \in Runs : CoreStart(r)
    \/ \E r \in Runs : CoreApply(r)
    \/ \E r \in Runs : CoreReturn(r)
    \/ \E r \in Runs : CoreRaises(r)

SpecCore == InitCore /\ [][NextCore]_vars

\* the node pass of the reconciler, then one reset while the panel serves
InitApply ==
    /\ settings_frp = "absent"
    /\ ncl = [n \in Nodes |-> NclInit]
    /\ dl = DlIdle
    /\ \E panel \in PanelAddrs :
        nodes = [n \in NodeIds |->
                    CASE n = "n1" -> Row(Addr("http", "n1", NodeApiPort), 0,
                                         "http://panel.example:8000")
                      [] n = "n2" -> Row(Addr("http", "n2", NodeApiPort), 0, panel)
                      [] OTHER    -> NoNode]
    /\ tunnels \in [Tids -> ApplyRows]
    /\ env_public_ip \in {"", "203.0.113.7"}
    /\ panel_domain = ""
    /\ mgr = [c \in Cores |-> {t \in ActiveOf(c) : LocalPlan(c, tunnels[t]) = "start"}]
    /\ gost = {}
    /\ boot = [BootInit EXCEPT !.pc = "node_tunnels"]
    /\ hist = HistInit
    /\ clock = 0
    /\ cfg = [c \in Cores |-> DueCfg]
    /\ sch = SchOff
    /\ man = ManIdle
    /\ runs = [r \in Runs |-> RunIdle]
    /\ hc = HcIdle
    /\ rq = [q \in Requests |-> RqIdle]
    /\ extra = NoExtra

NextApply ==
    \/ RestoreNodeTunnel
    \/ StartScheduler
    \/ Serving /\ CoreBegin("r1")
    \/ CoreStop("r1")
    \/ CoreStart("r1")
    \/ CoreApply("r1")
    \/ CoreReturn("r1")
    \/ CoreRaises("r1")

SpecApply == InitApply /\ [][NextApply]_vars

\* the tunnel rows of the store whose health is asked for
HealthRows ==
    { Tun("rathole", "active", "n1", RatholeSpec),
      Tun("rathole", "active", "n2", RatholeSpec),
      Tun("rathole", "inactive", "n1", RatholeSpec),
      Tun("frp", "active", "n1", FrpSpec),
      Tun("frp", "active", "n9", FrpSpec),
      Tun("chisel", "active", "", ChiselSpec) }

InitHealth ==
    /\ settings_frp = "absent"
    /\ ncl = [n \in Nodes |-> NclInit]
    /\ dl = DlIdle
    /\ nodes = [n \in NodeIds |->
                    IF n \in Nodes
                    THEN Row(Addr("http", n, NodeApiPort), 0, "http://panel.example:8000")
                    ELSE NoNode]
    /\ tunnels \in [Tids -> HealthRows]
    /\ env_public_ip = ""
    /\ panel_domain = ""
    /\ \E listed \in SUBSET Tids : mgr = [c \in Cores |-> {t \in listed : tunnels[t].core = c}]
    /\ gost = {}
    /\ boot = [BootOff EXCEPT !.pc = "serving", !.reset_task = "running"]
    /\ hist = HistInit
    /\ ResetOff

NextHealth ==
    \/ HealthBegin
    \/ HealthPanel
    \/ HealthNode

SpecHealth == InitHealth /\ [][NextHealth]_vars


\* the tunnel rows of the store whose node pass is followed
BatchRows ==
    { Tun("rathole", "active", "n1", RatholeSpec),
      Tun("rathole", "active", "n2", RatholeSpec),
      Tun("frp", "active", "n2", FrpSpec),
      Tun("rathole", "inactive", "n1", RatholeSpec) }

InitBatch ==
    /\ settings_frp \in {"disabled", "enabled"}
    /\ ncl = [n \in Nodes |-> NclInit]
    /\ dl = DlIdle
    /\ \E port \in {0} \cup RelayPorts :
        nodes = [n \in NodeIds |->
                    IF n \in Nodes
                    THEN Row(Addr("http", n, NodeApiPort), port, "http://panel.example:8000")
                    ELSE NoNode]
    /\ tunnels \in [Tids -> BatchRows]
    /\ env_public_ip = ""
    /\ panel_domain = ""
    /\ mgr = [c \in Cores |-> {t \in Tids : tunnels[t].core = c /\ IsActive(tunnels[t])}]
    /\ gost = {}
    /\ boot = [BootInit EXCEPT !.pc = "node_tunnels"]
    /\ hist = HistInit
    /\ ResetOff

NextBatch ==
    \/ BatchSend
    \/ BatchAwait
    \/ DeliverResolve
    \/ DeliverResolveRaises
    \/ DeliverProbe
    \/ DeliverAttempt
    \/ DeliverSleep

SpecBatch == InitBatch /\ [][NextBatch]_vars

InChisel == [BaseSpec EXCEPT !.local_port = 22]
InFrp == [BaseSpec EXCEPT !.token = "tok"]

\* the tunnel rows the derivations are applied to: chisel with a listen
\* port alone; with the port under remote_port and an explicit control port,
\* reverse spec and IPv6 panel_host; with a loopback panel_host; frp with
\* the defaults; with an explicit server_addr and bind port and no token
DeriveRows ==
    { Tun("chisel", "active", "n1", [InChisel EXCEPT !.listen_port = 9000]),
      Tun("chisel", "active", "n2",
          [InChisel EXCEPT !.remote_port = 9001, !.control_port = 9500,
                           !.local_addr = "10.0.0.5", !.panel_host = "2001:db8::1",
                           !.reverse_spec = <<"R", 7001, "10.0.0.6", 80>>]),
      Tun("chisel", "active", "n2",
          [InChisel EXCEPT !.listen_port = 9000, !.panel_host = "localhost"]),
      Tun("frp", "active", "n1", InFrp),
      Tun("frp", "active", "n2",
          [BaseSpec EXCEPT !.bind_port = 7100, !.server_addr = "198.51.100.9"]) }

InitDerive ==
    /\ settings_frp = "absent"
    /\ ncl = [n \in Nodes |-> NclInit]
    /\ dl = DlIdle
    /\ \E panel \in {"", "http://panel.example:8000", "http://[2001:db8::1]:8000"} :
        /\ nodes = [n \in NodeIds |->
                       IF n \in Nodes THEN Row(Addr("http", n, NodeApiPort), 0, panel)
                       ELSE NoNode]
        /\ panel_domain \in (IF panel = "" THEN {"", "panel.example.org"} ELSE {""})
    /\ tunnels \in [Tids -> DeriveRows]
    /\ env_public_ip \in {"", "2001:db8::1"}
    /\ mgr = [c \in Cores |-> {t \in Tids : tunnels[t].core = c}]
    /\ gost = {}
    /\ boot = [BootInit EXCEPT !.pc = "node_tunnels"]
    /\ hist = HistInit
    /\ clock = 0
    /\ cfg = [c \in Cores |-> DueCfg]
    /\ sch = SchOff
    /\ man = ManIdle
    /\ runs = [r \in Runs |-> RunIdle]
    /\ hc = HcIdle
    /\ rq = [q \in Requests |-> RqIdle]
    /\ extra = NoExtra

SpecDerive == InitDerive /\ [][NextApply]_vars

\* the rows a CoreResetConfig table may hold before the requests
StoredCfgs == {NoCfg, [DefaultCfg EXCEPT !.enabled = TRUE, !.interval = MinInterval,
                                          !.last_reset = 0, !.next_reset = MinInterval]}

InitConfig ==
    /\ settings_frp = "absent"
    /\ nodes = [n \in NodeIds |-> NoNode]
    /\ ncl = [n \in Nodes |-> NclInit]
    /\ dl = DlIdle
    /\ tunnels \in [Tids -> {Tun("rathole", "inactive", "n1", RatholeSpec)}]
    /\ env_public_ip = ""
    /\ panel_domain = ""
    /\ mgr = [c \in Cores |-> {}]
    /\ gost = {}
    /\ boot = [BootInit EXCEPT !.pc = "serving"]
    /\ hist = HistInit
    /\ clock = 0
    /\ cfg \in [Cores -> StoredCfgs]
    /\ sch = SchOff
    /\ man = ManIdle
    /\ runs = [r \in Runs |-> RunIdle]
    /\ hc = HcIdle
    /\ rq = [q \in Requests |-> RqIdle]
    /\ extra = NoExtra

NextConfig ==
    \/ Tick
    \/ \E q \in Requests : RqBegin(q)
    \/ \E q \in Requests : GetSelect(q)
    \/ \E q \in Requests : GetCommit(q)
    \/ \E q \in Requests : PutSelect(q)
    \/ \E q \in Requests : PutCommit(q)

SpecConfig == InitConfig /\ [][NextConfig]_vars

\* reconcile from the chisel servers on, then a reset, over the rows of
\* the derivations
InitPorts ==
    /\ settings_frp = "absent"
    /\ ncl = [n \in Nodes |-> NclInit]
    /\ dl = DlIdle
    /\ \E panel \in {"", "http://panel.example:8000"} :
        nodes = [n \in NodeIds |->
                    IF n \in Nodes THEN Row(Addr("http", n, NodeApiPort), 0, panel)
                    ELSE NoNode]
    /\ tunnels \in [Tids -> DeriveRows]
    /\ env_public_ip = "203.0.113.7"
    /\ panel_domain = ""
    /\ mgr = [c \in Cores |-> {}]
    /\ gost = {}
    /\ boot = [BootInit EXCEPT !.pc = "chisel"]
    /\ hist = HistInit
    /\ clock = 0
    /\ cfg = [c \in Cores |-> DueCfg]
    /\ sch = SchOff
    /\ man = ManIdle
    /\ runs = [r \in Runs |-> RunIdle]
    /\ hc = HcIdle
    /\ rq = [q \in Requests |-> RqIdle]
    /\ extra = NoExtra

NextPorts ==
    \/ RestoreChisel
    \/ RestoreFrp
    \/ NextApply

SpecPorts == InitPorts /\ [][NextPorts]_vars

----------------------------------------------------------------------------
(* Transport claims                                                         *)

\* the per-node state machine of the transport selector
ModeOf(relay_enabled, meta) ==
    IF ~relay_enabled THEN "Direct"
    ELSE IF meta.frp_remote_port = 0 THEN "RelayPending" ELSE "Relayed"

Mode(n) == ModeOf(settings_frp = "enabled", nodes[n])

\* the call in progress has got its address
DlResolved == dl.pc \in {"probe", "attempt", "sleep", "done"} /\ dl.meta.present

DlApi == WithHttp(IF dl.meta.api_address = NoAddr THEN DefaultApi ELSE dl.meta.api_address)

C2_Attempts ==
    DlResolved /\ dl.kind = "send" =>
        LET n == Len(dl.outcomes)
            mode == ModeOf(dl.frp_seen, dl.meta) IN
        /\ mode = "Relayed" => n <= 3
        /\ mode \in {"Direct", "RelayPending"} => n <= 1 /\ (dl.pc = "done" => n = 1)
        /\ \A i \in 1..(n - 1) : dl.outcomes[i] = "neterr"
        /\ dl.waits <= 2
        /\ dl.pc \in {"probe", "attempt"} => dl.waits = n
        /\ dl.pc \in {"sleep", "done"} => dl.waits = n - 1
        /\ n > 0 /\ dl.outcomes[n] = "ok" =>
                dl.pc = "done" /\ dl.result.kind = "reply" /\ dl.result.detail \in NodeReplies

C2_Witness ==
    /\ dl.kind = "send" /\ dl.pc = "done"
    /\ ModeOf(dl.frp_seen, dl.meta) = "Relayed"
    /\ dl.outcomes = <<"neterr", "neterr", "ok">>
    /\ dl.waits = 2

\* C3: a non-success response of the node ends send_to_node at once with a
\* remote-rejection soft failure carrying the decoded detail; no request
\* follows it, whatever attempts remain and whatever failed before.
C3_RejectionEnds ==
    dl.kind = "send" =>
        \A i \in 1..Len(dl.outcomes) :
            dl.outcomes[i] = "httperr" =>
                /\ i = Len(dl.outcomes)
                /\ dl.pc = "done"
                /\ dl.result.status = "error"
                /\ dl.result.kind = "node_error"
                /\ dl.result.detail = IF dl.decodes THEN "detail" ELSE "str_e"

C3_Witness ==
    /\ dl.kind = "send" /\ dl.using_frp
    /\ dl.outcomes = <<"neterr", "httperr">>
    /\ dl.decodes
    /\ dl.pc = "done"

\* C4: send_to_node and get_tunnel_status never raise: every call ends with a
\* structured {status: error, message} value or the node's response.
C4_NeverRaises == dl.pc # "raised"

----------------------------------------------------------------------------
(* Reconciler and shutdown claims                                           *)

ReconcileDone == boot.pc \in {"start_scheduler", "serving"}
NumericPort(v) == Truthy(v) /\ ~IntRaises(v)
Managed(t) == IsActive(t) /\ t.core \in Cores
HasNode(t) == t.node_id # "" /\ nodes[t.node_id].present

\* the spec of tunnel t for its local manager can be derived and converted
LocalDerivable(t) ==
    CASE t.core = "rathole" ->
            /\ t.spec.remote_addr # "" /\ t.spec.token # ""
            /\ NumericPort(Or(t.spec.remote_port, t.spec.listen_port))
      [] t.core = "chisel" ->
            /\ NumericPort(Or(Or(t.spec.listen_port, t.spec.remote_port), t.spec.server_port))
            /\ ~IntRaises(t.spec.control_port)
      [] t.core = "frp" -> NumericPort(Get(t.spec.bind_port, DefaultBindPort))
      [] OTHER -> TRUE

\* the node-facing spec of tunnel t can be derived for its node
NodeDerivable(t) ==
    /\ LocalDerivable(t)
    /\ t.core = "frp" =>
            nodes[t.node_id].panel_address # "" \/ PublicIpUsable(env_public_ip)

\* C5: in a reconcile pass every apply-tunnel call for a tunnel comes after a
\* start of that tunnel on its local manager.
C5_ApplyAfterStart ==
    \A t \in Tids : hist.applies[t] > 0 => hist.starts[t] > 0

\* C6: in a reconcile pass a failure for one tunnel never prevents the start
\* and the apply of another active tunnel: after the pass every active
\* tunnel whose own spec is derivable has been started, and applied when its
\* node exists, whatever happened to the other tunnels.
C6_FailuresIndependent ==
    ReconcileDone =>
        \A t \in Tids :
            Managed(tunnels[t]) /\ LocalDerivable(tunnels[t]) =>
                /\ hist.starts[t] > 0
                /\ HasNode(tunnels[t]) /\ NodeDerivable(tunnels[t]) => hist.applies[t] > 0

\* C7: after a reconcile pass over a store whose active tunnels use managed
\* backends and have derivable specs, and in which no start failed, every
\* active tunnel is listed by the manager of its backend-core and every one
\* that references an existing node has had an apply-tunnel call.
GoodStore ==
    \A t \in Tids :
        IsActive(tunnels[t]) =>
            /\ tunnels[t].core \in Cores
            /\ LocalDerivable(tunnels[t])
            /\ HasNode(tunnels[t]) => NodeDerivable(tunnels[t])

C7_ReconcileRestoresAll ==
    ReconcileDone /\ GoodStore /\ hist.start_raised = {} =>
        \A t \in Tids :
            IsActive(tunnels[t]) =>
                /\ t \in mgr[tunnels[t].core]
                /\ \A c \in Cores \ {tunnels[t].core} : t \notin mgr[c]
                /\ HasNode(tunnels[t]) => hist.applies[t] > 0

C7_Witness ==
    /\ boot.pc = "serving" /\ GoodStore /\ hist.start_raised = {}
    /\ tunnels[1].core = "rathole" /\ tunnels[2].core = "frp"
    /\ IsActive(tunnels[1]) /\ IsActive(tunnels[2])
    /\ HasNode(tunnels[1]) /\ HasNode(tunnels[2])
    /\ tunnels[1].node_id # tunnels[2].node_id
    /\ 1 \in mgr["rathole"] /\ 2 \in mgr["frp"]
    /\ hist.applies[1] > 0 /\ hist.applies[2] > 0

\* C8: every shutdown calls cleanup_all on each of the four backend process
\* managers, whatever happens in the earlier shutdown steps.
C8_CleanupAlways == boot.pc = "stopped" => hist.cleanups = Cores

----------------------------------------------------------------------------
(* Reset claims                                                             *)

\* C9: every stored reset configuration has next_reset null exactly when it
\* is disabled, and, when it is enabled and has been reset before,
\* next_reset = last_reset + interval.
C9_ConfigInvariant ==
    \A c \in Cores :
        cfg[c].present =>
            /\ (cfg[c].next_reset = NoTime) <=> ~cfg[c].enabled
            /\ (cfg[c].enabled /\ cfg[c].last_reset # NoTime)
                    => cfg[c].next_reset = cfg[c].last_reset + cfg[c].interval

\* a loaded row whose reset is due at the wake's now
EnabledAndDue(row, now) ==
    /\ row.present /\ row.enabled
    /\ row.next_reset # NoTime /\ row.next_reset <= now

SchedWakes == sch.pc = "sleeping" /\ sch'.pc = "loop"
SchedWakeEnds == sch.pc = "loop" /\ sch'.pc = "sleeping"
SchedCommits == sch.pc = "resetting" /\ sch'.pc = "loop" /\ cfg' # cfg

\* a wake loads the enabled rows of the store and the current time
C10_WakeLoads ==
    SchedWakes =>
        /\ sch'.now = clock'
        /\ \A c \in Cores :
             sch'.rows[c] = IF cfg[c].present /\ cfg[c].enabled THEN cfg[c] ELSE NoCfg

\* when a wake ends, the shared reset has been run for exactly the loaded
\* rows that were due
C10_ExactlyDue ==
    SchedWakeEnds => sch.done = {c \in Cores : EnabledAndDue(sch.rows[c], sch.now)}

\* the bookkeeping written after a reset
C10_Bookkeeping ==
    SchedCommits =>
        /\ cfg'[sch.cur].last_reset = sch.now
        /\ cfg'[sch.cur].next_reset = sch.now + sch.rows[sch.cur].interval

\* the scheduler changes no row but the one it has just reset, and runs the
\* reset for no row that was not loaded as enabled and due
C10_OthersUntouched ==
    sch' # sch =>
        /\ \A c \in Cores :
             cfg'[c] # cfg[c] => /\ SchedCommits /\ c = sch.cur
                                 /\ EnabledAndDue(sch.rows[c], sch.now)
        /\ sch'.pc = "resetting" => EnabledAndDue(sch.rows[sch'.cur], sch.now)

\* the stored row of core c is enabled and its next_reset has passed
StoredDue(c) == EnabledAndDue(cfg[c], clock)

SchedFails == sch.pc = "resetting" /\ sch.cur \in sch'.failed

\* the failure of one core's reset leaves the wake's other due rows waiting
\* to be reset, and the task is ended by nothing but the cancel at shutdown
C11_FailureStep ==
    /\ SchedFails => sch'.pc = "loop" /\ sch'.todo = sch.todo
    /\ (sch'.pc = "cancelled" /\ sch.pc # "cancelled") => boot'.reset_task = "cancelled"
    /\ sch.pc = "cancelled" => sch'.pc = "cancelled"

\* when a wake ends every due row has been reset, and every one whose reset
\* did not fail has the wake's bookkeeping or a later one
C11_WakeEnd ==
    SchedWakeEnds =>
        \A c \in Cores :
            EnabledAndDue(sch.rows[c], sch.now) =>
                /\ c \in sch.done
                /\ c \notin sch.failed =>
                        /\ cfg[c].last_reset >= sch.now
                        /\ cfg[c].enabled => cfg[c].next_reset > sch.now

----------------------------------------------------------------------------
(* Claims on the calls of a reset                                           *)

\* run r has called stop_server for tunnel t and not yet start_server
BetweenStopAndStart(r, t) ==
    /\ runs[r].pc = "pause"
    /\ runs[r].active[runs[r].i] = t

\* C12: two resets of the same backend-core that run together never are
\* both between their stop and their start for the same tunnel id, so the
\* stop-then-start pair of one is over before the other issues its stop.
C12_NoOverlap ==
    \A r1, r2 \in Runs : \A t \in Tids :
        (r1 # r2 /\ runs[r1].core = runs[r2].core)
            => ~(BetweenStopAndStart(r1, t) /\ BetweenStopAndStart(r2, t))

\* call op for tunnel t occurs among the first k calls of the sequence
CalledBefore(calls, k, op, t) == \E j \in 1..(k - 1) : calls[j] = Call(op, t)

\* C13: in the calls of one reset every start of a tunnel id comes after a
\* stop of that id, and every apply of a tunnel comes after the start of
\* that tunnel.
C13_StopStartApply ==
    \A r \in Runs : \A k \in 1..Len(runs[r].calls) :
        LET c == runs[r].calls[k] IN
        /\ c[1] = "start" => CalledBefore(runs[r].calls, k, "stop", c[2])
        /\ c[1] = "apply" => CalledBefore(runs[r].calls, k, "start", c[2])

\* C14: no step of the reconciler's node pass and no step of a reset changes
\* a stored tunnel: the derived fields go into the spec that is sent.
C14_StoredSpecKept == [][tunnels' = tunnels]_vars

\* the reconciler and a finished reset have both sent tunnel 1, an frp
\* tunnel, a spec with a derived server_addr and server_port that the
\* stored spec does not have
C14_Witness ==
    /\ tunnels[1].core = "frp"
    /\ hist.applies[1] > 0
    /\ runs["r1"].pc = "finished"
    /\ \E k \in 1..Len(runs["r1"].calls) :
         LET c == runs["r1"].calls[k] IN
         /\ c[1] = "apply" /\ c[2] = 1
         /\ c[3].server_addr = "panel.example"
         /\ c[3].server_port = DefaultBindPort
         /\ c[3].server_port # tunnels[1].spec.server_port

\* C15: a finished reset of a core without active tunnels has issued no
\* call, and the core has a row whose last_reset is set and whose
\* next_reset, when the row is enabled, is last_reset + interval.
C15_EmptyReset ==
    \A r \in Runs :
        (runs[r].pc = "finished" /\ runs[r].active = <<>>) =>
            /\ runs[r].calls = <<>>
            /\ cfg[runs[r].core].present
            /\ cfg[runs[r].core].last_reset # NoTime
            /\ cfg[runs[r].core].enabled =>
                    cfg[runs[r].core].next_reset
                        = cfg[runs[r].core].last_reset + cfg[runs[r].core].interval

\* the step in which run r writes its bookkeeping on an enabled row
ReturnsEnabled(r) ==
    /\ runs[r].pc = "return"
    /\ runs'[r].pc = "finished"
    /\ cfg[runs[r].core].present
    /\ cfg[runs[r].core].enabled

C17_UpdateRecomputes ==
    \A core \in ResetCores, enabled_in \in EnabledInputs, interval_in \in IntervalInputs :
        ~UpdateRejected(interval_in) =>
            LET r == UpdatedCfg(cfg[core], enabled_in, interval_in, clock) IN
            /\ (r.enabled /\ r.last_reset # NoTime) =>
                    r.next_reset = r.last_reset + r.interval
            /\ ~r.enabled => r.next_reset = NoTime

\* a row reset earlier, enabled with the default interval of 10 minutes
C17_Witness ==
    \E core \in ResetCores :
        /\ cfg[core].enabled
        /\ cfg[core].interval = DefaultInterval
        /\ cfg[core].last_reset # NoTime
        /\ cfg[core].last_reset < clock
        /\ cfg[core].next_reset = cfg[core].last_reset + DefaultInterval
        /\ UpdatedCfg(cfg[core], "true", NoChange, clock) = cfg[core]

\* C18: a node whose registration succeeded with relay enabled (it is setting
\* up its relay client) eventually has its relay port in the panel's stored
\* metadata.
C18_LeavesRelayPending ==
    \A n \in Nodes : (ncl[n].pc = "setup_frp") ~> (nodes[n].frp_remote_port # 0)

\* a step in which node n sends its relay status report
SendsReport(n) == ncl'[n].reports = ncl[n].reports + 1

\* C19: a relay status report is sent only by a node whose registration was
\* accepted, that has a node id, whose relay client runs and whose relay port
\* is known; it goes to the panel's API address, not through the relay; and a
\* node sends at most one per successful registration.
C19_ReportOnlyWhenReady ==
    /\ [][\A n \in Nodes : SendsReport(n) =>
            /\ ncl[n].registered
            /\ ncl[n].node_id # ""
            /\ ncl[n].frpc = "running"
            /\ ncl[n].remote_port \in RelayPorts
            /\ ~ncl[n].using_frp
            /\ ncl'[n].report_url = Addr("http", NodePanelAddress.host, PanelApiPort)]_vars
    /\ [](\A n \in Nodes : ncl[n].reports <= (IF ncl[n].registered THEN 1 ELSE 0))

C19_Witness ==
    \E n \in Nodes :
        /\ ncl[n].reports = 1
        /\ ncl[n].using_frp
        /\ nodes[n].frp_remote_port = ncl[n].remote_port

\* send_to_node has resolved the address and is past the place of the
\* health check
PastProbe == dl.kind = "send" /\ dl.pc \in {"attempt", "sleep"} \cup
                                           (IF dl.outcomes # <<>> THEN {"done"} ELSE {})

\* C20: the health check is made only by a relayed send_to_node, exactly
\* once, before the first exchange; whatever it ends in, the exchanges follow
\* and a call that ends in a network error has made all MaxRetriesFrp of them.
C20_ProbeBestEffort ==
    /\ dl.probes > 0 => dl.kind = "send" /\ dl.using_frp
    /\ dl.pc = "probe" => dl.using_frp /\ dl.probes = 0 /\ dl.outcomes = <<>>
    /\ PastProbe => dl.probes = (IF dl.using_frp THEN 1 ELSE 0)
    /\ (dl.probes = 1 /\ dl.pc = "done") =>
            /\ dl.outcomes # <<>>
            /\ dl.result = NetworkError(TRUE) => Len(dl.outcomes) = MaxRetriesFrp

\* a relayed call whose health check timed out went on to use its three
\* exchanges
C20_Witness ==
    /\ dl.kind = "send" /\ dl.pc = "done"
    /\ dl.probe_out = "timeout"
    /\ dl.outcomes = <<"neterr", "neterr", "neterr">>

----------------------------------------------------------------------------
(* Derivation failures, batch results, health snapshot                      *)

\* a required field of the backend-specific spec of tunnel t is missing and
\* nothing stands in for it: the rathole token or endpoint, the chisel listen
\* port
DerivationFails(t) ==
    CASE t.core = "rathole" -> t.spec.token = "" \/ t.spec.remote_addr = ""
      [] t.core = "chisel" ->
            ~Truthy(Or(Or(t.spec.listen_port, t.spec.remote_port), t.spec.server_port))
      [] OTHER -> FALSE

\* the frp server host for the node of tunnel t cannot be resolved; the
\* local frp server needs no host
HostFails(t) ==
    /\ t.core = "frp"
    /\ HasNode(t)
    /\ nodes[t.node_id].panel_address = ""
    /\ ~PublicIpUsable(env_public_ip)

\* C21: in a reconcile pass an active tunnel whose backend-specific spec
\* cannot be derived gets neither a local start nor an apply-tunnel call, and
\* an frp tunnel whose server host cannot be resolved gets no apply-tunnel
\* call.
C21_SkipsUnderivable ==
    \A t \in Tids :
        Managed(tunnels[t]) =>
            /\ DerivationFails(tunnels[t]) => hist.starts[t] = 0 /\ hist.applies[t] = 0
            /\ HostFails(tunnels[t]) => hist.applies[t] = 0

\* the body manual_reset_core answers with after _reset_core returned
ResetResponse(run) ==
    [status |-> "success", message |-> <<run.core, "reset successfully">>]

\* the tunnels a response names as failed or not found
ReportedFailed(response) ==
    IF "failed" \in DOMAIN response THEN response.failed ELSE {}

\* the tunnels of a run whose referenced node is not in the store
NodeNotFound(run) ==
    {run.active[k] : k \in {j \in 1..Len(run.active) :
                                /\ tunnels[run.active[j]].node_id # ""
                                /\ ~nodes[tunnels[run.active[j]].node_id].present}}

\* C22: the result of a completed manual reset names every tunnel of the
\* core whose referenced node is not in the store.
C22_ResultEnumerates ==
    \A r \in Runs :
        (runs[r].kind = "manual" /\ runs[r].pc = "finished") =>
            NodeNotFound(runs[r]) \subseteq ReportedFailed(ResetResponse(runs[r]))

\* the panel part of the snapshot has been computed for this core
PanelDone(core) == hc.snap[core].panel_status # "unknown"

C24_NodeStatus ==
    \A core \in Cores, n \in NodeIds :
        LET st == hc.snap[core].nodes_status[n]
            p == hc.probed[core][n] IN
        st.status # "" =>
            /\ st.healthy <=> p = <<"ok", "reply_ok">>
            /\ p[1] \in {"neterr", "badjson", "raised"} => st.status = "error"
            /\ st.status = "disconnected" => (p = <<"ok", "reply_error">> \/ p[1] = "httperr")

\* C25: no step of the health request changes a Node, Tunnel or ResetConfig
\* row, the processes the managers list, or the calls issued and the resets
\* in progress.
C25_ReadOnly ==
    [][/\ nodes' = nodes /\ tunnels' = tunnels /\ cfg' = cfg
       /\ mgr' = mgr /\ hist' = hist /\ runs' = runs /\ gost' = gost]_vars

\* a finished snapshot for which two nodes were asked
C25_Witness ==
    /\ hc.pc = "done"
    /\ \E c, d \in Cores, n, k \in Nodes :
          /\ <<c, n>> # <<d, k>>
          /\ hc.probed[c][n][1] # "" /\ hc.probed[d][k][1] # ""

\* tunnel u, on another node than the one being called, still waits for
\* its apply in this pass
PendingElsewhere(u) ==
    /\ u > boot.i
    /\ NodePlan(tunnels[u], nodes, env_public_ip) = "apply"
    /\ tunnels[u].node_id # dl.node
    /\ hist.applies[u] = 0

\* C26: while the send_to_node for one tunnel of the node pass waits
\* between two attempts, the apply of a tunnel of another node that is
\* still to come can be issued: a step issuing it is possible.
C26_OthersProceed ==
    \A u \in Tids :
        (boot.pc = "node_tunnels" /\ dl.pc = "sleep" /\ PendingElsewhere(u)) =>
            ENABLED (NextBatch /\ hist'.applies[u] = hist.applies[u] + 1)


----------------------------------------------------------------------------
(* Derived node-facing specs                                                *)

\* the node-facing specs of tunnel t sent so far by the reconcile pass and
\* by the reset runs
SentByReconcile(t) == {hist.sent[t][k] : k \in 1..Len(hist.sent[t])}
SentByReset(t) ==
    UNION {{runs[r].calls[k][3] : k \in {j \in 1..Len(runs[r].calls) :
                                            /\ runs[r].calls[j][1] = "apply"
                                            /\ runs[r].calls[j][2] = t}} : r \in Runs}

\* what the chisel derivation is to give for a stored spec: the control port
\* and the reverse spec
ExpectedControlPort(spec) ==
    IF spec.control_port # Missing THEN spec.control_port
    ELSE ChiselListenPort(spec) + 10000
ExpectedReverseSpec(spec) ==
    IF spec.reverse_spec # <<>> THEN spec.reverse_spec
    ELSE <<"R", ChiselListenPort(spec),
           IF spec.local_addr = "" THEN "127.0.0.1" ELSE spec.local_addr,
           spec.local_port>>

\* C27: every node-facing spec sent for a chisel tunnel with listen port P,
\* by the reconcile pass or by a reset, has the explicit control port or
\* P + 10000 in its control URL and carries the explicit reverse spec or
\* R:P:<local_addr>:<local_port>.
C27_ChiselDerivation ==
    \A t \in Tids :
        tunnels[t].core = "chisel" /\ Truthy(ChiselListenPort(tunnels[t].spec)) =>
            \A s \in SentByReconcile(t) \cup SentByReset(t) :
                /\ s.server_url[2] = ExpectedControlPort(tunnels[t].spec)
                /\ s.reverse_spec = ExpectedReverseSpec(tunnels[t].spec)


\* the host part of a stored panel address, an IPv6 literal without its
\* brackets
HostPart(address) ==
    CASE address = "http://panel.example:8000"  -> "panel.example"
      [] address = "http://[2001:db8::1]:8000"  -> "2001:db8::1"
      [] OTHER                                  -> address

\* the priority chain of the control-URL host: the explicit field, the host
\* part of the node's panel address, the environment's public IP; when none
\* is available, a loopback host
ChainHosts(explicit, row, public_ip) ==
    LET written(h) == IF IsValidIPv6(h) THEN "[" \o h \o "]" ELSE h IN
    IF explicit # "" THEN {written(explicit)}
    ELSE IF row.panel_address # "" THEN {written(HostPart(row.panel_address))}
    ELSE IF PublicIpUsable(public_ip) THEN {written(public_ip)}
    ELSE {"localhost", "127.0.0.1", "[::1]"}

\* C28: every node-facing spec sent for a chisel tunnel, by the reconcile
\* pass or by a reset, has in its control URL the first available host of
\* the chain explicit panel_host, host part of the node's panel address,
\* environment public IP, loopback, an IPv6 literal in brackets (an explicit
\* loopback panel_host is left aside).
C28_ChiselHost ==
    \A t \in Tids :
        /\ tunnels[t].core = "chisel"
        /\ Truthy(ChiselListenPort(tunnels[t].spec))
        /\ tunnels[t].spec.panel_host \notin Loopbacks
        => \A s \in SentByReconcile(t) \cup SentByReset(t) :
                s.server_url[1] \in ChainHosts(tunnels[t].spec.panel_host,
                                               nodes[tunnels[t].node_id], env_public_ip)

\* C29: every node-facing spec sent for an frp tunnel, by the reconcile pass
\* or by a reset, has a server host from the chain explicit server_addr, host
\* part of the node's panel address, environment public IP, loopback (an
\* IPv6 literal in brackets), a server port equal to the bind port (7000
\* when absent), and is sent only for a tunnel that has a token.
C29_FrpDerivation ==
    \A t \in Tids :
        tunnels[t].core = "frp" =>
            \A s \in SentByReconcile(t) \cup SentByReset(t) :
                /\ s.server_addr \in ChainHosts(tunnels[t].spec.server_addr,
                                                nodes[tunnels[t].node_id], env_public_ip)
                /\ s.server_port = (IF tunnels[t].spec.bind_port = Missing
                                    THEN DefaultBindPort ELSE tunnels[t].spec.bind_port)
                /\ tunnels[t].spec.token # ""

----------------------------------------------------------------------------
(* Reset configuration rows                                                 *)

\* the number of CoreResetConfig rows of a core
RowCount(c) == (IF cfg[c].present THEN 1 ELSE 0) + extra[c]

\* a step of a GET /reset-config request
GetStep == \E q \in Getters : rq'[q] # rq[q]

----------------------------------------------------------------------------
(* Reconcile: one start per active tunnel                                   *)

\* C31: in a reconcile pass start_server is called at most once per tunnel
\* id, only for a tunnel whose stored status is active and only on the
\* manager of the tunnel's own backend-core; a tunnel whose status is
\* inactive or error gets no start and no apply-tunnel call.
C31_StartOncePerActive ==
    \A t \in Tids :
        /\ hist.starts[t] <= 1
        /\ hist.starts[t] > 0 => IsActive(tunnels[t]) /\ tunnels[t].core \in Cores
        /\ \A c \in Cores : t \in mgr[c] => tunnels[t].core = c
        /\ ~IsActive(tunnels[t]) => hist.starts[t] = 0 /\ hist.applies[t] = 0

\* the pass is over: an active tunnel was started on its manager and
\* applied, and a tunnel that is not active was passed over
C31_Witness ==
    /\ boot.pc = "serving"
    /\ \E t \in Tids : /\ hist.starts[t] = 1 /\ hist.applies[t] = 1
                       /\ t \in mgr[tunnels[t].core]
    /\ \E t \in Tids : /\ tunnels[t].status = "inactive" /\ tunnels[t].node_id # ""
                       /\ hist.starts[t] = 0 /\ hist.applies[t] = 0

----------------------------------------------------------------------------
(* Reconcile and reset side by side                                         *)

\* C32: for one tunnel and one node, the node-facing spec sent by the
\* reconcile pass and the one sent by a reset are the same record.
C32_SameSpecBothPaths ==
    \A t \in Tids :
        \A s1 \in SentByReconcile(t), s2 \in SentByReset(t) :
            /\ DOMAIN s1 = DOMAIN s2
            /\ \A f \in DOMAIN s1 : s1[f] = s2[f]

\* the apply-tunnel specs a reset run has sent for tunnel t
RunSent(r, t) ==
    {runs[r].calls[k][3] : k \in {j \in 1..Len(runs[r].calls) :
                                    /\ runs[r].calls[j][1] = "apply"
                                    /\ runs[r].calls[j][2] = t}}

\* C33: for an active chisel tunnel the port the local chisel server was
\* started on equals the control port of the server URL sent to the node,
\* in the reconcile pass and in every reset.
C33_ControlPortAgrees ==
    \A t \in Tids :
        tunnels[t].core = "chisel" /\ IsActive(tunnels[t]) =>
            /\ hist.starts[t] > 0 =>
                  \A s \in SentByReconcile(t) : s.server_url[2] = hist.port[t]
            /\ \A r \in Runs :
                  runs[r].port[t] # Missing =>
                      \A s \in RunSent(r, t) : s.server_url[2] = runs[r].port[t]

----------------------------------------------------------------------------
(* Relay flag of the node and relay port of the panel                       *)

\* C34: whenever a node's using_frp flag is set, the panel's stored metadata
\* of that node holds the relay port the node reported.
C34_RelayFlagAgrees ==
    \A n \in Nodes :
        ncl[n].using_frp =>
            /\ nodes[n].present
            /\ nodes[n].frp_remote_port # 0
            /\ nodes[n].frp_remote_port = ncl[n].remote_port

----------------------------------------------------------------------------
(* Scheduler against concurrent edits and failures                          *)

\* the scheduler calls _reset_core for the next due row of its wake
SchedStarts == sch.pc = "loop" /\ sch'.pc = "resetting"

\* C35: when the scheduler starts the reset of a core, the stored
\* ResetConfig of that core is enabled at that moment, and the interval the
\* scheduler will compute next_reset from is the one stored at that moment.
C35_FreshAtStart ==
    [][SchedStarts =>
          /\ cfg[sch'.cur].present
          /\ cfg[sch'.cur].enabled
          /\ cfg[sch'.cur].interval = sch.rows[sch'.cur].interval]_vars

\* a reset run ends with its _reset_core call raising
RunFails(r) == runs[r].pc # "failed" /\ runs'[r].pc = "failed"

\* C36: when the reset of a core raises, last_reset and next_reset of that
\* core's row stay as they were, for a scheduled and for a manual reset; a
\* row the scheduler loaded as due and that nothing else changed is due
\* again at every later wake.
C36_FailureKeepsRow ==
    [][\A r \in Runs :
          RunFails(r) =>
              LET c == runs[r].core IN
              /\ cfg'[c].last_reset = cfg[c].last_reset
              /\ cfg'[c].next_reset = cfg[c].next_reset
              /\ (runs[r].kind = "sched" /\ cfg[c] = runs[r].row)
                    => c \in DueRows(cfg', clock' + 1)]_vars

\* a scheduled reset of a due row failed and the row is still due, and a
\* manual reset failed
C36_Witness ==
    /\ \E r \in Runs : /\ runs[r].pc = "failed" /\ runs[r].kind = "sched"
                       /\ cfg[runs[r].core] = runs[r].row
                       /\ runs[r].core \in DueRows(cfg, clock)
    /\ \E r \in Runs : runs[r].pc = "failed" /\ runs[r].kind = "manual"

----------------------------------------------------------------------------
(* Resets running together                                                  *)

LastRun == CHOOSE q \in Runs : q # FirstRun

\* the resets of one core that ran together with run r
Group(r) == {q \in Runs : /\ runs[q].pc # "idle" /\ runs[q].core = runs[r].core
                          /\ runs[q].first = runs[r].first}

\* the resets that ran together with r are over, none is under way for the
\* core, none began afterwards, and none of their start_server calls failed
GroupSettled(r) ==
    /\ runs[r].pc \in {"finished", "failed"}
    /\ InProgress(runs[r].core) = {}
    /\ runs[LastRun].core = runs[r].core => LastRun \in Group(r)
    /\ \A q \in Group(r) : ~runs[q].start_failed

\* C37 as stated: with no start failing, once the resets of a core that
\* ran together are over, the manager lists exactly the tunnel ids it listed
\* before them.
C37_Original ==
    \A r \in Runs : GroupSettled(r) => mgr[runs[r].core] = runs[r].before

\* C37: with no start failing, once the resets of a core that ran together
\* are over, every tunnel the manager listed before them is listed again,
\* and the manager lists active tunnels of the core only.
C37_RunningAgain ==
    \A r \in Runs :
        GroupSettled(r) =>
            /\ runs[r].before \subseteq mgr[runs[r].core]
            /\ mgr[runs[r].core] \subseteq ActiveOf(runs[r].core)

\* a manual and a scheduled reset of one core ran together, both stopped
\* and started a tunnel, and the tunnel is listed
C37_Witness ==
    /\ Group(FirstRun) = Runs
    /\ runs[FirstRun].kind # runs[LastRun].kind
    /\ GroupSettled(FirstRun)
    /\ \E t \in Tids :
         /\ t \in runs[FirstRun].before /\ t \in mgr[runs[FirstRun].core]
         /\ \A r \in Runs : \E j, k \in 1..Len(runs[r].calls) :
                /\ j < k /\ runs[r].calls[j] = Call("stop", t)
                /\ runs[r].calls[k] = Call("start", t)

----------------------------------------------------------------------------
(* Startup: the reconcile pass, then the scheduler and its first reset       *)

InitStartup ==
    /\ settings_frp = "absent"
    /\ ncl = [n \in Nodes |-> NclInit]
    /\ dl = DlIdle
    /\ nodes = [n \in NodeIds |->
                    IF n \in Nodes
                    THEN Row(Addr("http", n, NodeApiPort), 0, "http://panel.example:8000")
                    ELSE NoNode]
    /\ tunnels \in [Tids -> RunRows]
    /\ env_public_ip = ""
    /\ panel_domain = ""
    /\ mgr = [c \in Cores |-> {}]
    /\ gost = {}
    /\ boot = [BootInit EXCEPT !.pc = "frp"]
    /\ hist = HistInit
    /\ clock = 0
    /\ cfg = [c \in Cores |-> DueCfg]
    /\ sch = SchOff
    /\ man = ManIdle
    /\ runs = [r \in Runs |-> RunIdle]
    /\ hc = HcIdle
    /\ rq = [q \in Requests |-> RqIdle]
    /\ extra = NoExtra

\* _reset_core is entered from the scheduler's for loop, or from
\* manual_reset_core once requests are served
StartupReset ==
    /\ CoreBegin("r1")
    /\ IF runs'["r1"].kind = "sched" THEN sch.pc = "loop" ELSE Serving

NextStartup ==
    \/ Tick
    \/ RestoreFrp
    \/ RestoreNodeTunnel
    \/ StartScheduler
    \/ SchedWake
    \/ StartupReset
    \/ CoreStop("r1")
    \/ CoreStart("r1")
    \/ CoreApply("r1")
    \/ CoreReturn("r1")
    \/ CoreRaises("r1")

SpecStartup == InitStartup /\ [][NextStartup]_vars

Reconciling == boot.pc \in {"forwards", "rathole", "backhaul", "chisel", "frp",
                            "node_tunnels"}

\* C38: the scheduler task exists only once the reconcile pass has returned,
\* no reset has issued a stop, start or apply while the pass is under way,
\* and a scheduled reset happens at least one wake after the task was created.
C38_SchedulerAfterReconcile ==
    /\ sch.pc # "off" => ~Reconciling /\ boot.pc # "start_scheduler"
    /\ Reconciling => \A r \in Runs : runs[r].pc = "idle" /\ runs[r].calls = <<>>
    /\ \A r \in Runs :
         (runs[r].pc # "idle" /\ runs[r].kind = "sched") =>
             /\ boot.reset_task = "running"
             /\ runs[r].now >= boot.since + 1

\* the pass started one tunnel and applied one to its node while time went
\* by, then the scheduler's first reset stopped and started a tunnel
C38_Witness ==
    /\ boot.pc = "serving" /\ boot.since > 0
    /\ \E t \in Tids : hist.starts[t] > 0
    /\ \E t \in Tids : hist.applies[t] > 0
    /\ runs["r1"].kind = "sched" /\ runs["r1"].pc = "finished"
    /\ \E t \in Tids, k \in 1..Len(runs["r1"].calls) :
            runs["r1"].calls[k] = Call("start", t)

----------------------------------------------------------------------------
(* Rejected updates of a reset configuration                                *)

Putters == Requests \ Getters
RejectedNow(q) == rq[q].pc # "rejected" /\ rq'[q].pc = "rejected"

\* C39: the step that rejects a PUT /reset-config/{core}, for a core that
\* is not in CORES or for an interval below 1, leaves the stored row of
\* every core as it was, and the request does nothing afterwards.
C39_RejectedKeepsRows ==
    [][\A q \in Putters :
          /\ RejectedNow(q) =>
                /\ cfg' = cfg /\ extra' = extra
                /\ rq[q].core \in Cores => rq[q].pc = "select"
          /\ rq[q].pc = "rejected" => rq'[q] = rq[q]]_vars

\* a PUT for a core without a row, setting enabled, was rejected for its
\* interval: the session held a new enabled row and the store has none
C39_Witness ==
    \E q \in Putters :
        /\ rq[q].pc = "rejected" /\ rq[q].core \in Cores
        /\ ~rq[q].found /\ rq[q].row.enabled
        /\ ~cfg[rq[q].core].present

====
